---------------------------- MODULE Spec2Model ----------------------------
(***************************************************************************)
(* The kernel interrupt object of base/ntos/ke/i386/intobj.c:              *)
(* KeInitializeInterrupt, KeConnectInterrupt, KeDisconnectInterrupt, the   *)
(* vector inspector KiGetVectorInfo, the binder                            *)
(* KiConnectVectorAndInterruptObject and the dispatch routines             *)
(* KiTimedChainedDispatch2ndLvl and KiTimedInterruptDispatch.              *)
(*                                                                         *)
(* A vector slot is a pair <<processor, vector>>: the IDT (and the flat    *)
(* dispatch table) consulted by KiReturnHandlerAddressFromIDT and written  *)
(* by KiSetHandlerAddressToIDT is that of the processor the caller is      *)
(* pinned to, and the HAL enables or disables the line for that processor. *)
(***************************************************************************)
EXTENDS Integers, Sequences, FiniteSets, TLC

(***************************************************************************)
(* Bounds of the model.                                                    *)
(***************************************************************************)
NumObjs == 3

NumThreads == 2

MaxCalls == 4

KeNumberProcessors == 2

(***************************************************************************)
(* Program constants.                                                      *)
(***************************************************************************)
HIGH_LEVEL == 31

\* KAFFINITY is a 32-bit mask; the i386 shift instruction uses the count
\* modulo 32.
AffinityBits == 32

Objs == 1..NumObjs

NoObject == 0

Threads == 1..NumThreads

NoThread == 0

Procs == 0..(KeNumberProcessors - 1)

\* The vectors of the model: vector 1 is dispatched through the IDT, vector 2
\* through the HAL's flat dispatch table.
Vectors == {1, 2}

Slots == Procs \X Vectors

\* The thread's own affinity, in force outside Connect and Disconnect: no
\* processor the calls pin it to.
UserAffinity == -1

\* KINTERRUPT_MODE
LevelSensitive == "LevelSensitive"

Latched == "Latched"

\* CONNECT_TYPE
NoConnect == "NoConnect"

NormalConnect == "NormalConnect"

ChainConnect == "ChainConnect"

UnknownConnect == "UnknownConnect"

(***************************************************************************)
(* What a vector slot can hold: the unexpected-interrupt stub (NoDispatch),*)
(* the start of an interrupt object's dispatch code (IDT vectors), the     *)
(* second-level entry of an object's dispatch code (flat vectors), or a    *)
(* handler that belongs to no interrupt object (a HAL-owned vector).       *)
(***************************************************************************)
NoDispatchStub == [kind |-> "NoDispatch", o |-> NoObject]

DispatchCodeOf(o) == [kind |-> "DispatchCode", o |-> o]

SecondDispatchOf(o) == [kind |-> "2ndDispatch", o |-> o]

ForeignHandler == [kind |-> "Foreign", o |-> NoObject]

VARIABLES
    obj,     \* the interrupt objects (KINTERRUPT), by object
    idt,     \* the vector dispatch tables: slot -> installed target
    hal,     \* the HAL's interrupt lines: slot -> enabled
    lock,    \* the dispatcher database lock: its holder, or NoThread
    thr,     \* the calling threads: position, call, locals, affinity
    walk,    \* the dispatch routine running at interrupt level
    isr,     \* the dispatch routine of each processor, lock by lock
    spin,    \* the interrupt spin locks: lock -> holding processor
    cal,     \* the ISR time limit and its calibration
    prcb     \* the cycle counter, Prcb->IsrTime and the timed dispatch routines

vars == <<obj, idt, hal, lock, thr, walk, isr, spin, cal, prcb>>

(***************************************************************************)
(* KeInitializeInterrupt: every parameter is stored, the lock is the       *)
(* caller's or the object's own, the dispatch code template is copied and  *)
(* its object reference patched, Connected is FALSE.  InterruptListEntry   *)
(* and DispatchAddress are not written.                                    *)
(***************************************************************************)
OwnLock(o) == <<"SpinLock", o>>

\* The SpinLock argument: NULL, or the lock the caller shares between objects.
NullSpinLock == <<"NULL", 0>>

CallerLock == <<"CallerLock", 0>>

\* Lines 163-221 with the lock always the object's own.
InitializeWithOwnLock(o, p) ==
    [ ServiceRoutine  |-> p.ServiceRoutine,
      ServiceContext  |-> p.ServiceContext,
      ActualLock      |-> OwnLock(o),
      Vector          |-> p.Vector,
      Irql            |-> p.Irql,
      SynchronizeIrql |-> p.SynchronizeIrql,
      Mode            |-> p.Mode,
      ShareVector     |-> p.ShareVector,
      Number          |-> p.Number,
      FloatingSave    |-> p.FloatingSave,
      CodeObject      |-> o,
      CodeBranch      |-> "template",
      DispatchAddress |-> "unset",
      Flink           |-> NoObject,
      Blink           |-> NoObject,
      Connected       |-> FALSE ]

KeInitializeInterrupt(o, p) ==
    [ ServiceRoutine  |-> p.ServiceRoutine,
      ServiceContext  |-> p.ServiceContext,
      ActualLock      |-> IF p.SpinLock # NullSpinLock THEN p.SpinLock ELSE OwnLock(o),
      Vector          |-> p.Vector,
      Irql            |-> p.Irql,
      SynchronizeIrql |-> p.SynchronizeIrql,
      Mode            |-> p.Mode,
      ShareVector     |-> p.ShareVector,
      Number          |-> p.Number,
      FloatingSave    |-> p.FloatingSave,
      CodeObject      |-> o,
      CodeBranch      |-> "template",
      DispatchAddress |-> "unset",
      Flink           |-> NoObject,
      Blink           |-> NoObject,
      Connected       |-> FALSE ]

(***************************************************************************)
(* The parameter tuples the callers of the model pass to                   *)
(* KeInitializeInterrupt.                                                  *)
(***************************************************************************)
Params(v, irql, sync, mode, share, n, fs) ==
    [ ServiceRoutine |-> "ServiceRoutine", ServiceContext |-> "ServiceContext",
      SpinLock |-> NullSpinLock, Vector |-> v, Irql |-> irql, SynchronizeIrql |-> sync,
      Mode |-> mode, ShareVector |-> share, Number |-> n, FloatingSave |-> fs ]

ParamChoices ==
    << Params(1, 1, 1, LevelSensitive, TRUE, 0, FALSE),
       Params(1, 1, 2, Latched, TRUE, 0, FALSE),
       Params(1, 2, 2, LevelSensitive, FALSE, 0, FALSE),
       Params(2, 2, 2, Latched, TRUE, 1, FALSE),
       Params(1, HIGH_LEVEL + 1, HIGH_LEVEL + 1, LevelSensitive, TRUE, 0, FALSE),
       Params(1, 1, 1, LevelSensitive, TRUE, KeNumberProcessors, FALSE),
       Params(1, 2, 1, LevelSensitive, TRUE, 0, FALSE),
       Params(1, 1, 1, LevelSensitive, TRUE, 0, TRUE),
       Params(1, 1, 1, LevelSensitive, FALSE, 0 - AffinityBits, FALSE) >>

\* The tuples each object of the model is initialized from (indices into
\* ParamChoices).  Calls come in any order on any object, so every pairing of
\* tuples on one vector is covered by the first objects.
ChoicesOf(o) ==
    IF o = 1 THEN {1, 2, 3}
    ELSE IF o = 2 THEN {1, 2, 3, 4}
    ELSE IF o = 3 THEN {1, 2, 4, 5, 6, 7, 8, 9}
    ELSE {4, 6}

\* The same for the runs with several threads.
ChoicesOfMT(o) ==
    IF o = 1 THEN {1, 3}
    ELSE IF o = 2 THEN {1, 2, 9}
    ELSE IF o = 3 THEN {2, 4, 6}
    ELSE {6}


(***************************************************************************)
(* HalSystemVectorDispatchEntry: 0 for a vector dispatched through the     *)
(* IDT, 1 for a vector dispatched through the flat table.  (Any other      *)
(* value makes KiGetVectorInfo bugcheck MISMATCHED_HAL; the HAL of the     *)
(* model returns none.)                                                    *)
(***************************************************************************)
HalSystemVectorDispatchEntry(v) == IF v = 1 THEN 0 ELSE 1

\* The dispatch-stage entry points KiGetVectorInfo reports for a vector.
InterruptDispatchOf(v) ==
    IF HalSystemVectorDispatchEntry(v) = 0
        THEN "KiInterruptDispatch" ELSE "KiInterruptDispatch2ndLvl"

FloatingDispatchOf(v) ==
    IF HalSystemVectorDispatchEntry(v) = 0
        THEN "KiFloatingDispatch" ELSE "KiInterruptDispatch2ndLvl"

ChainedDispatchOf(v) ==
    IF HalSystemVectorDispatchEntry(v) = 0
        THEN "KiChainedDispatch" ELSE "KiChainedDispatch2ndLvl"

\* Lines 620-625: the value computed from a flat-table target is the target
\* plus the offset of the second-level entry in the template.  The binder
\* installs the object's dispatch code plus that offset (lines 745-748), so
\* the value lies two offsets into the object's dispatch code: it points at
\* no interrupt object, whatever the target.
InterruptOfFlatDispatch(target) == NoObject

\* DispatchInfo->Interrupt (lines 609-613, 620-625).  For an IDT vector,
\* CONTAINING_RECORD of the installed target: the object whose dispatch code
\* the target is; of a target that is no object's dispatch code the result
\* points at no interrupt object.
InterruptOfTarget(v, target) ==
    IF HalSystemVectorDispatchEntry(v) = 0
        THEN (IF target.kind = "DispatchCode" THEN target.o ELSE NoObject)
        ELSE InterruptOfFlatDispatch(target)

\* Interrupt->DispatchAddress as KiGetVectorInfo reads it; the word read
\* through a pointer that is no interrupt object is no dispatch entry point.
DispatchAddressOf(objs, o) ==
    IF o \in Objs THEN objs[o].DispatchAddress ELSE "unrecognized"

\* The classification of lines 637-674.
ClassifyDispatch(v, current, dispatch) ==
    IF current = NoDispatchStub THEN NoConnect
    ELSE IF dispatch = ChainedDispatchOf(v) THEN ChainConnect
    ELSE IF dispatch = InterruptDispatchOf(v) \/ dispatch = FloatingDispatchOf(v)
        THEN NormalConnect
    ELSE UnknownConnect

KiGetVectorInfo(objs, table, p, v) ==
    LET current == table[<<p, v>>]
        int == InterruptOfTarget(v, current)
    IN  [ Type              |-> ClassifyDispatch(v, current, DispatchAddressOf(objs, int)),
          Interrupt         |-> int,
          NoDispatch        |-> NoDispatchStub,
          InterruptDispatch |-> InterruptDispatchOf(v),
          FloatingDispatch  |-> FloatingDispatchOf(v),
          ChainedDispatch   |-> ChainedDispatchOf(v),
          FlatDispatch      |-> HalSystemVectorDispatchEntry(v) = 1 ]

(***************************************************************************)
(* The machine state the critical sections work on: [obj, idt, hal, log].  *)
(* log lists, in order, what the section did to the dispatch code, the     *)
(* vector tables, the HAL and the instruction caches.                      *)
(* KiConnectVectorAndInterruptObject on processor p.                       *)
(***************************************************************************)
Logged(m, e) == [m EXCEPT !.log = Append(m.log, e)]

\* The dispatch stage a connect type selects (lines 710-717).
DispatchAddressFor(info, int, Type) ==
    IF Type = NormalConnect
        THEN (IF int.FloatingSave THEN info.FloatingDispatch
              ELSE info.InterruptDispatch)
        ELSE info.ChainedDispatch

\* The target written to the vector (lines 736-754).
VectorTargetFor(info, o) ==
    IF info.FlatDispatch THEN SecondDispatchOf(o) ELSE DispatchCodeOf(o)

\* The binder without the NoConnect case of lines 700-702: the vector keeps
\* its target.
BindWithoutUnbind(m, p, o, Type) ==
    LET v == m.obj[o].Vector
        info == KiGetVectorInfo(m.obj, m.idt, p, v)
    IN  IF Type = NoConnect
        THEN m
        ELSE LET da == DispatchAddressFor(info, m.obj[o], Type)
                 m1 == Logged([m EXCEPT !.obj[o].DispatchAddress = da,
                                        !.obj[o].CodeBranch = da],
                              <<"patch", o>>)
             IN  Logged([m1 EXCEPT !.idt[<<p, v>>] = VectorTargetFor(info, o)],
                        <<"vector", <<p, v>>, o>>)

KiConnectVectorAndInterruptObject(m, p, o, Type) ==
    LET v == m.obj[o].Vector
        info == KiGetVectorInfo(m.obj, m.idt, p, v)
    IN  IF Type = NoConnect
        THEN Logged([m EXCEPT !.idt[<<p, v>>] = info.NoDispatch],
                    <<"vector", <<p, v>>, NoObject>>)
        ELSE LET da == DispatchAddressFor(info, m.obj[o], Type)
                 m1 == Logged([m EXCEPT !.obj[o].DispatchAddress = da,
                                        !.obj[o].CodeBranch = da],
                              <<"patch", o>>)
             IN  Logged([m1 EXCEPT !.idt[<<p, v>>] = VectorTargetFor(info, o)],
                        <<"vector", <<p, v>>, o>>)

(***************************************************************************)
(* The list primitives on InterruptListEntry.                              *)
(***************************************************************************)
InitializeListHead(objs, o) == [objs EXCEPT ![o].Flink = o, ![o].Blink = o]

\* InsertHeadList in the place of InsertTailList.
InsertHeadList(objs, head, e) ==
    LET flink == objs[head].Flink
        a == [objs EXCEPT ![e].Flink = flink, ![e].Blink = head]
        b == [a EXCEPT ![flink].Blink = e]
    IN  [b EXCEPT ![head].Flink = e]

InsertTailList(objs, head, e) ==
    LET blink == objs[head].Blink
        a == [objs EXCEPT ![e].Flink = head, ![e].Blink = blink]
        b == [a EXCEPT ![blink].Flink = e]
    IN  [b EXCEPT ![head].Blink = e]

RemoveEntryList(objs, e) ==
    LET flink == objs[e].Flink
        blink == objs[e].Blink
        a == [objs EXCEPT ![blink].Flink = flink]
    IN  [a EXCEPT ![flink].Blink = blink]

(***************************************************************************)
(* HalEnableSystemInterrupt (its result is the HAL's) and                  *)
(* HalDisableSystemInterrupt, for the line of slot s.                      *)
(***************************************************************************)
HalEnableSystemInterrupt(lines, s, ok) == IF ok THEN [lines EXCEPT ![s] = TRUE] ELSE lines

HalDisableSystemInterrupt(lines, s) == [lines EXCEPT ![s] = FALSE]

(***************************************************************************)
(* KeConnectInterrupt.                                                     *)
(***************************************************************************)
\* The parameter check of lines 280-284: TRUE when the call is refused.
ParametersRejected(int) ==
    \/ int.Irql > HIGH_LEVEL
    \/ int.Number >= KeNumberProcessors
    \/ int.SynchronizeIrql < int.Irql
    \/ int.FloatingSave

\* The processor selected by (KAFFINITY)(1<<Number): the shift count is a
\* signed char and the i386 shift uses it modulo 32.
AffinityOf(n) == n % AffinityBits

\* A test of line 304 that never finds the object connected.
NeverAlreadyConnected(int) == FALSE

\* The test of line 304.
AlreadyConnected(int) == int.Connected

\* The sharing test without the occupant's ShareVector (line 342).
CanShareIgnoringOccupant(info, objs, o) ==
    /\ info.Type # UnknownConnect
    /\ objs[o].ShareVector
    /\ objs[info.Interrupt].Mode = objs[o].Mode

\* The sharing test of lines 340-343.
CanShare(info, objs, o) ==
    /\ info.Type # UnknownConnect
    /\ objs[o].ShareVector
    /\ objs[info.Interrupt].ShareVector
    /\ objs[info.Interrupt].Mode = objs[o].Mode

\* Lines 320-337 without the InitializeListHead of line 327.
ConnectWithoutListHead(m, p, o, ok) ==
    LET m1 == [m EXCEPT !.obj[o].Connected = TRUE]
        m3 == KiConnectVectorAndInterruptObject(m1, p, o, NormalConnect)
    IN  Logged([m3 EXCEPT !.hal = HalEnableSystemInterrupt(m3.hal, <<p, m.obj[o].Vector>>, ok)],
               <<"HalEnableSystemInterrupt", <<p, m.obj[o].Vector>>>>)

\* Lines 320-337: connect to a vector nothing is connected to.  ok is the
\* result of HalEnableSystemInterrupt.
ConnectExclusive(m, p, o, ok) ==
    LET m1 == [m EXCEPT !.obj[o].Connected = TRUE]
        m2 == [m1 EXCEPT !.obj = InitializeListHead(m1.obj, o)]
        m3 == KiConnectVectorAndInterruptObject(m2, p, o, NormalConnect)
    IN  Logged([m3 EXCEPT !.hal = HalEnableSystemInterrupt(m3.hal, <<p, m.obj[o].Vector>>, ok)],
               <<"HalEnableSystemInterrupt", <<p, m.obj[o].Vector>>>>)

\* Lines 350-370: join the occupant's chain.
ConnectChained(m, p, o, info) ==
    LET m1 == [m EXCEPT !.obj[o].Connected = TRUE]
        m2 == IF info.Type # ChainConnect
                  THEN KiConnectVectorAndInterruptObject(m1, p, info.Interrupt, ChainConnect)
                  ELSE m1
    IN  [m2 EXCEPT !.obj = InsertTailList(m2.obj, info.Interrupt, o)]

\* Lines 304-373, run on processor p with the dispatcher database locked.
\* The result holds the new machine state and the locals Connected and
\* ConnectError.
ConnectLocked(m, p, o, ok) ==
    LET info == KiGetVectorInfo(m.obj, m.idt, p, m.obj[o].Vector)
    IN  IF AlreadyConnected(m.obj[o])
            THEN [m |-> m, Connected |-> FALSE, ConnectError |-> FALSE]
        ELSE IF info.Type = NoConnect
            THEN [m |-> ConnectExclusive(m, p, o, ok), Connected |-> TRUE,
                  ConnectError |-> ~ok]
        ELSE IF CanShare(info, m.obj, o)
            THEN [m |-> ConnectChained(m, p, o, info), Connected |-> TRUE,
                  ConnectError |-> FALSE]
        ELSE [m |-> m, Connected |-> FALSE, ConnectError |-> FALSE]

(***************************************************************************)
(* KeDisconnectInterrupt.                                                  *)
(***************************************************************************)
\* Lines 491-510 without the test for a single remaining object (517-525).
DisconnectChainedNoCollapse(m, p, o, info) ==
    LET head == IF o = info.Interrupt THEN m.obj[info.Interrupt].Flink
                ELSE info.Interrupt
        m1 == IF o = info.Interrupt
                  THEN KiConnectVectorAndInterruptObject(m, p, head, ChainConnect)
                  ELSE m
    IN  [m1 EXCEPT !.obj = RemoveEntryList(m1.obj, o)]

\* Lines 491-525: remove o from the chain of the vector.
DisconnectChained(m, p, o, info) ==
    LET head == IF o = info.Interrupt THEN m.obj[info.Interrupt].Flink
                ELSE info.Interrupt
        m1 == IF o = info.Interrupt
                  THEN KiConnectVectorAndInterruptObject(m, p, head, ChainConnect)
                  ELSE m
        m2 == [m1 EXCEPT !.obj = RemoveEntryList(m1.obj, o)]
        Interrupty == m2.obj[head].Flink
    IN  IF head = Interrupty
            THEN KiConnectVectorAndInterruptObject(m2, p, Interrupty, NormalConnect)
            ELSE m2

\* Line 534 without the KiConnectVectorAndInterruptObject of line 535.
DisconnectLeavingVector(m, p, o) ==
    Logged([m EXCEPT !.hal = HalDisableSystemInterrupt(m.hal, <<p, m.obj[o].Vector>>)],
           <<"HalDisableSystemInterrupt", <<p, m.obj[o].Vector>>>>)

\* Lines 534-535: the last object leaves the vector.
DisconnectExclusive(m, p, o) ==
    LET m1 == Logged([m EXCEPT !.hal = HalDisableSystemInterrupt(m.hal, <<p, m.obj[o].Vector>>)],
                     <<"HalDisableSystemInterrupt", <<p, m.obj[o].Vector>>>>)
    IN  KiConnectVectorAndInterruptObject(m1, p, o, NoConnect)

\* Line 539 without the assignment of line 540.
SweepOnly(m, o) == Logged(m, <<"KeSweepIcache">>)

\* Lines 539-540: KeSweepIcache, then Connected is cleared.
ClearConnected(m, o) ==
    [Logged(m, <<"KeSweepIcache">>) EXCEPT !.obj[o].Connected = FALSE]

\* Lines 455-541 with the test of line 456 applied to the chained branch
\* only.
DisconnectLockedUntested(m, p, o) ==
    LET info == KiGetVectorInfo(m.obj, m.idt, p, m.obj[o].Vector)
    IN  IF m.obj[o].Connected /\ info.Type = ChainConnect
            THEN [m |-> ClearConnected(DisconnectChained(m, p, o, info), o),
                  Connected |-> TRUE]
        ELSE [m |-> ClearConnected(DisconnectExclusive(m, p, o), o),
              Connected |-> TRUE]

\* Lines 455-541, run on processor p with the dispatcher database locked.
DisconnectLocked(m, p, o) ==
    LET info == KiGetVectorInfo(m.obj, m.idt, p, m.obj[o].Vector)
    IN  IF ~m.obj[o].Connected
            THEN [m |-> m, Connected |-> FALSE]
        ELSE IF info.Type = ChainConnect
            THEN [m |-> ClearConnected(DisconnectChained(m, p, o, info), o),
                  Connected |-> TRUE]
        ELSE [m |-> ClearConnected(DisconnectExclusive(m, p, o), o),
              Connected |-> TRUE]

(***************************************************************************)
(* The calling threads.  A thread's positions:                             *)
(*   idle             outside any call                                     *)
(*   connect          in KeConnectInterrupt, pinned, dispatcher lock held  *)
(*   rollback         in KeConnectInterrupt at line 388, lock released,    *)
(*                    about to call KeDisconnectInterrupt                  *)
(*   rollback_locked  in that KeDisconnectInterrupt, pinned, lock held     *)
(*   disconnect       in KeDisconnectInterrupt, pinned, lock held          *)
(*   return           at the return statement, Connected the value         *)
(*                    returned, log what the call did                      *)
(*   unscheduled      KeSetSystemAffinityThread was given a processor the  *)
(*                    system does not have: the thread does not run again  *)
(*   writes           in a locked section that is run write by write: todo *)
(*                    lists the machine states after each write to come    *)
(***************************************************************************)
IdleThread ==
    [ pc |-> "idle", op |-> "none", o |-> NoObject, Connected |-> FALSE,
      ConnectError |-> FALSE, affinity |-> UserAffinity, log |-> <<>>,
      todo |-> <<>> ]

Machine == [obj |-> obj, idt |-> idt, hal |-> hal, log |-> <<>>]

\* A dispatch routine is running on processor p: the threads pinned to p do
\* not run until it returns.
InterruptActiveOn(p) == walk.pc # "idle" /\ walk.p = p

\* Lines 275-298: the parameter check, KeSetSystemAffinityThread and
\* KiLockDispatcherDatabase.
ConnectEnter(t, o) ==
    /\ thr[t].pc = "idle"
    /\ IF ParametersRejected(obj[o])
       THEN /\ thr' = [thr EXCEPT ![t] = [IdleThread EXCEPT !.pc = "return",
                                             !.op = "Connect", !.o = o]]
            /\ UNCHANGED lock
       ELSE IF AffinityOf(obj[o].Number) \notin Procs
       THEN /\ thr' = [thr EXCEPT ![t] = [IdleThread EXCEPT !.pc = "unscheduled",
                                             !.op = "Connect", !.o = o,
                                             !.affinity = AffinityOf(obj[o].Number)]]
            /\ UNCHANGED lock
       ELSE /\ lock = NoThread
            /\ ~InterruptActiveOn(AffinityOf(obj[o].Number))
            /\ lock' = t
            /\ thr' = [thr EXCEPT ![t] = [IdleThread EXCEPT !.pc = "connect",
                                             !.op = "Connect", !.o = o,
                                             !.affinity = AffinityOf(obj[o].Number)]]
    /\ UNCHANGED <<obj, idt, hal, walk, isr, spin, cal, prcb>>

\* Lines 304-388: the locked section, KiUnlockDispatcherDatabase and
\* KeRevertToUserAffinityThread.
ConnectBody(t) ==
    /\ thr[t].pc = "connect"
    /\ \E ok \in BOOLEAN :
         LET r == ConnectLocked(Machine, thr[t].affinity, thr[t].o, ok)
         IN  /\ obj' = r.m.obj
             /\ idt' = r.m.idt
             /\ hal' = r.m.hal
             /\ thr' = [thr EXCEPT ![t].pc = IF r.Connected /\ r.ConnectError
                                                 THEN "rollback" ELSE "return",
                                    ![t].Connected = r.Connected,
                                    ![t].ConnectError = r.ConnectError,
                                    ![t].affinity = UserAffinity,
                                    ![t].log = r.m.log]
    /\ lock' = NoThread
    /\ UNCHANGED <<walk, isr, spin, cal, prcb>>

\* Line 392 into KeDisconnectInterrupt, lines 442-448.
RollbackEnter(t) ==
    /\ thr[t].pc = "rollback"
    /\ lock = NoThread
    /\ ~InterruptActiveOn(AffinityOf(obj[thr[t].o].Number))
    /\ lock' = t
    /\ thr' = [thr EXCEPT ![t].pc = "rollback_locked",
                           ![t].affinity = AffinityOf(obj[thr[t].o].Number)]
    /\ UNCHANGED <<obj, idt, hal, walk, isr, spin, cal, prcb>>

\* The KeDisconnectInterrupt of line 392, and line 393.
RollbackBody(t) ==
    /\ thr[t].pc = "rollback_locked"
    /\ LET r == DisconnectLocked(Machine, thr[t].affinity, thr[t].o)
       IN  /\ obj' = r.m.obj
           /\ idt' = r.m.idt
           /\ hal' = r.m.hal
           /\ thr' = [thr EXCEPT ![t].pc = "return", ![t].Connected = FALSE,
                                  ![t].affinity = UserAffinity,
                                  ![t].log = thr[t].log \o r.m.log]
    /\ lock' = NoThread
    /\ UNCHANGED <<walk, isr, spin, cal, prcb>>

\* Lines 442-448: KeSetSystemAffinityThread and KiLockDispatcherDatabase.
DisconnectEnter(t, o) ==
    /\ thr[t].pc = "idle"
    /\ IF AffinityOf(obj[o].Number) \notin Procs
       THEN /\ thr' = [thr EXCEPT ![t] = [IdleThread EXCEPT !.pc = "unscheduled",
                                             !.op = "Disconnect", !.o = o,
                                             !.affinity = AffinityOf(obj[o].Number)]]
            /\ UNCHANGED lock
       ELSE /\ lock = NoThread
            /\ ~InterruptActiveOn(AffinityOf(obj[o].Number))
            /\ lock' = t
            /\ thr' = [thr EXCEPT ![t] = [IdleThread EXCEPT !.pc = "disconnect",
                                             !.op = "Disconnect", !.o = o,
                                             !.affinity = AffinityOf(obj[o].Number)]]
    /\ UNCHANGED <<obj, idt, hal, walk, isr, spin, cal, prcb>>

\* Lines 455-553.
DisconnectBody(t) ==
    /\ thr[t].pc = "disconnect"
    /\ LET r == DisconnectLocked(Machine, thr[t].affinity, thr[t].o)
       IN  /\ obj' = r.m.obj
           /\ idt' = r.m.idt
           /\ hal' = r.m.hal
           /\ thr' = [thr EXCEPT ![t].pc = "return", ![t].Connected = r.Connected,
                                  ![t].affinity = UserAffinity,
                                  ![t].log = r.m.log]
    /\ lock' = NoThread
    /\ UNCHANGED <<walk, isr, spin, cal, prcb>>

\* Lines 400 and 559: the call returns.
Return(t) ==
    /\ thr[t].pc = "return"
    /\ thr' = [thr EXCEPT ![t] = IdleThread]
    /\ UNCHANGED <<obj, idt, hal, lock, walk, isr, spin, cal, prcb>>

(***************************************************************************)
(* The locked sections write by write, for the interrupts that arrive on   *)
(* the processor in the middle of them (the dispatcher lock is held below  *)
(* the level of the devices).  Each operator gives the machine states      *)
(* after each of the writes, in the order of the code.                     *)
(***************************************************************************)
Last(ms) == ms[Len(ms)]

\* InitializeListHead (line 327): Flink, then Blink.
InitializeListHeadWrites(m, o) ==
    LET a == [m EXCEPT !.obj[o].Flink = o]
    IN  <<a, [a EXCEPT !.obj[o].Blink = o]>>

\* InsertTailList (lines 366-369): the entry's links, then the last
\* member's Flink, then the head's Blink.
InsertTailListWrites(m, head, e) ==
    LET blink == m.obj[head].Blink
        a == [m EXCEPT !.obj[e].Flink = head]
        b == [a EXCEPT !.obj[e].Blink = blink]
        c == [b EXCEPT !.obj[blink].Flink = e]
    IN  <<a, b, c, [c EXCEPT !.obj[head].Blink = e]>>

\* A RemoveEntryList that leaves the entry linked.
RemoveNothingWrites(m, e) == <<>>

\* RemoveEntryList (line 510): the predecessor's Flink, then the
\* successor's Blink.
RemoveEntryListWrites(m, e) ==
    LET flink == m.obj[e].Flink
        blink == m.obj[e].Blink
        a == [m EXCEPT !.obj[blink].Flink = flink]
    IN  <<a, [a EXCEPT !.obj[flink].Blink = blink]>>

\* KiConnectVectorAndInterruptObject (lines 696-773): DispatchAddress, the
\* branch of the dispatch code, then the vector.
BindWrites(m, p, o, Type) ==
    LET v == m.obj[o].Vector
        info == KiGetVectorInfo(m.obj, m.idt, p, v)
    IN  IF Type = NoConnect
        THEN <<[m EXCEPT !.idt[<<p, v>>] = info.NoDispatch]>>
        ELSE LET da == DispatchAddressFor(info, m.obj[o], Type)
                 a == [m EXCEPT !.obj[o].DispatchAddress = da]
                 b == [a EXCEPT !.obj[o].CodeBranch = da]
             IN  <<a, b, [b EXCEPT !.idt[<<p, v>>] = VectorTargetFor(info, o)]>>

\* Lines 320-337.
ConnectExclusiveWrites(m, p, o, ok) ==
    LET a == <<[m EXCEPT !.obj[o].Connected = TRUE]>>
        b == a \o InitializeListHeadWrites(Last(a), o)
        c == b \o BindWrites(Last(b), p, o, NormalConnect)
    IN  c \o <<[Last(c) EXCEPT
                  !.hal = HalEnableSystemInterrupt(Last(c).hal, <<p, m.obj[o].Vector>>, ok)]>>

\* Lines 350-370.
ConnectChainedWrites(m, p, o, info) ==
    LET a == <<[m EXCEPT !.obj[o].Connected = TRUE]>>
        b == IF info.Type # ChainConnect
                 THEN a \o BindWrites(Last(a), p, info.Interrupt, ChainConnect)
                 ELSE a
    IN  b \o InsertTailListWrites(Last(b), info.Interrupt, o)

\* Lines 304-373.
ConnectLockedWrites(m, p, o, ok) ==
    LET info == KiGetVectorInfo(m.obj, m.idt, p, m.obj[o].Vector)
    IN  IF AlreadyConnected(m.obj[o]) THEN <<>>
        ELSE IF info.Type = NoConnect THEN ConnectExclusiveWrites(m, p, o, ok)
        ELSE IF CanShare(info, m.obj, o) THEN ConnectChainedWrites(m, p, o, info)
        ELSE <<>>

\* Lines 491-525.
DisconnectChainedWrites(m, p, o, info) ==
    LET head == IF o = info.Interrupt THEN m.obj[info.Interrupt].Flink
                ELSE info.Interrupt
        a == IF o = info.Interrupt
                 THEN BindWrites(m, p, head, ChainConnect)
                 ELSE <<>>
        b == a \o RemoveEntryListWrites(Last(<<m>> \o a), o)
        Interrupty == Last(<<m>> \o b).obj[head].Flink
    IN  IF head = Interrupty
            THEN b \o BindWrites(Last(<<m>> \o b), p, Interrupty, NormalConnect)
            ELSE b

\* Lines 534-535.
DisconnectExclusiveWrites(m, p, o) ==
    LET a == [m EXCEPT !.hal = HalDisableSystemInterrupt(m.hal, <<p, m.obj[o].Vector>>)]
    IN  <<a>> \o BindWrites(a, p, o, NoConnect)

\* Lines 455-541; the last write is that of line 540.
DisconnectLockedWrites(m, p, o) ==
    LET info == KiGetVectorInfo(m.obj, m.idt, p, m.obj[o].Vector)
        a == IF info.Type = ChainConnect
                 THEN DisconnectChainedWrites(m, p, o, info)
                 ELSE DisconnectExclusiveWrites(m, p, o)
    IN  IF ~m.obj[o].Connected THEN <<>>
        ELSE a \o <<[Last(<<m>> \o a) EXCEPT !.obj[o].Connected = FALSE]>>

\* The thread in a locked section starts on it: the result of the section
\* is decided by the state it finds.
SectionBegin(t) ==
    /\ thr[t].pc \in {"connect", "rollback_locked", "disconnect"}
    /\ ~InterruptActiveOn(thr[t].affinity)
    /\ IF thr[t].pc = "connect"
       THEN \E ok \in BOOLEAN :
              LET r == ConnectLocked(Machine, thr[t].affinity, thr[t].o, ok)
              IN  thr' = [thr EXCEPT
                            ![t].pc = "writes",
                            ![t].Connected = r.Connected,
                            ![t].ConnectError = r.ConnectError,
                            ![t].log = r.m.log,
                            ![t].todo = ConnectLockedWrites(Machine, thr[t].affinity,
                                                            thr[t].o, ok)]
       ELSE LET r == DisconnectLocked(Machine, thr[t].affinity, thr[t].o)
            IN  thr' = [thr EXCEPT
                          ![t].pc = "writes",
                          ![t].Connected = IF thr[t].pc = "disconnect"
                                               THEN r.Connected ELSE FALSE,
                          ![t].ConnectError = FALSE,
                          ![t].log = thr[t].log \o r.m.log,
                          ![t].todo = DisconnectLockedWrites(Machine, thr[t].affinity,
                                                             thr[t].o)]
    /\ UNCHANGED <<obj, idt, hal, lock, walk, isr, spin, cal, prcb>>

\* The next write of the section.
SectionWrite(t) ==
    /\ thr[t].pc = "writes"
    /\ thr[t].todo # <<>>
    /\ ~InterruptActiveOn(thr[t].affinity)
    /\ obj' = Head(thr[t].todo).obj
    /\ idt' = Head(thr[t].todo).idt
    /\ hal' = Head(thr[t].todo).hal
    /\ thr' = [thr EXCEPT ![t].todo = Tail(thr[t].todo)]
    /\ UNCHANGED <<lock, walk, isr, spin, cal, prcb>>

\* KiUnlockDispatcherDatabase and KeRevertToUserAffinityThread (lines
\* 379-386, 547-553).
SectionEnd(t) ==
    /\ thr[t].pc = "writes"
    /\ thr[t].todo = <<>>
    /\ ~InterruptActiveOn(thr[t].affinity)
    /\ thr' = [thr EXCEPT ![t].pc = IF thr[t].Connected /\ thr[t].ConnectError
                                        THEN "rollback" ELSE "return",
                           ![t].affinity = UserAffinity]
    /\ lock' = NoThread
    /\ UNCHANGED <<obj, idt, hal, walk, isr, spin, cal, prcb>>

(***************************************************************************)
(* The dispatch routines, run on the processor and vector the hardware     *)
(* delivered the interrupt on.  The dispatch code installed in the vector  *)
(* loads its object and branches to the stage patched into it.  calls      *)
(* lists the objects whose service routine the walk has called, reports    *)
(* what each call of the chained stage returned, levels the level of the   *)
(* processor during each call; Irql is the level of the processor now and  *)
(* EntryIrql the level at which the dispatch routine was entered.          *)
(***************************************************************************)
\* The level at which the hardware delivery enters the dispatch routine of
\* the object installed in the vector: that object's request level.
EntryIrqlOf(objs, o) == objs[o].Irql

\* KfRaiseIrql and KfLowerIrql set the level of the processor to their
\* argument (lines 832, 914).
KfRaiseIrql(current, NewIrql) == NewIrql

KfLowerIrql(current, NewIrql) == NewIrql

\* The level the service routine of object o is called at (lines 831-833),
\* and the level after it (lines 913-915).
RaisedFor(objs, o, current) ==
    IF objs[o].Irql # objs[o].SynchronizeIrql
        THEN KfRaiseIrql(current, objs[o].SynchronizeIrql)
        ELSE current

LoweredAfter(objs, o, current) ==
    IF objs[o].Irql # objs[o].SynchronizeIrql
        THEN KfLowerIrql(current, objs[o].Irql)
        ELSE current

IdleWalk ==
    [ pc |-> "idle", p |-> 0, v |-> 0, stage |-> "none", Interrupt |-> NoObject,
      ListEnd |-> NoObject, Handled |-> FALSE, calls |-> <<>>,
      reports |-> <<>>, EntryIrql |-> 0, Irql |-> 0,
      levels |-> <<>>, exit |-> "none" ]

\* A thread is inside a locked section on processor p.
ThreadLockedOn(p) ==
    \E t \in Threads : /\ thr[t].pc \in {"connect", "rollback_locked", "disconnect"}
                       /\ thr[t].affinity = p

\* The hardware delivers an interrupt on an enabled line whose vector holds
\* an object's dispatch code (lines 805-806 for the chained stage).
InterruptDelivery(s) ==
    /\ walk.pc = "idle"
    /\ hal[s]
    /\ idt[s].kind \in {"DispatchCode", "2ndDispatch"}
    /\ ~ThreadLockedOn(s[1])
    /\ LET o == obj[idt[s].o].CodeObject
       IN  walk' = [IdleWalk EXCEPT !.pc = "isr", !.p = s[1], !.v = s[2],
                       !.stage = IF obj[o].CodeBranch = ChainedDispatchOf(s[2])
                                     THEN "chained" ELSE "normal",
                       !.Interrupt = o, !.ListEnd = o,
                       !.EntryIrql = EntryIrqlOf(obj, o),
                       !.Irql = EntryIrqlOf(obj, o)]
    /\ UNCHANGED <<obj, idt, hal, lock, thr, isr, spin, cal, prcb>>

\* Lines 927-954 without the test of lines 917-925.
AfterServiceRoutineNoLevelStop(w, objs) ==
    IF objs[w.Interrupt].Flink = w.ListEnd /\ ~w.Handled
        THEN [w EXCEPT !.pc = "done", !.exit = "break"]
    ELSE [w EXCEPT !.Interrupt = objs[w.Interrupt].Flink]

\* Lines 917-954 with the test of line 948 inverted.
AfterServiceRoutineBreakWhenHandled(w, objs) ==
    IF w.Handled /\ objs[w.Interrupt].Mode = LevelSensitive
        THEN [w EXCEPT !.pc = "done", !.exit = "return"]
    ELSE IF objs[w.Interrupt].Flink = w.ListEnd /\ w.Handled
        THEN [w EXCEPT !.pc = "done", !.exit = "break"]
    ELSE [w EXCEPT !.Interrupt = objs[w.Interrupt].Flink]

\* What follows the service routine's call in the loop of
\* KiTimedChainedDispatch2ndLvl (lines 917-954), Handled already updated.
AfterServiceRoutine(w, objs) ==
    IF w.Handled /\ objs[w.Interrupt].Mode = LevelSensitive
        THEN [w EXCEPT !.pc = "done", !.exit = "return"]
    ELSE IF objs[w.Interrupt].Flink = w.ListEnd /\ ~w.Handled
        THEN [w EXCEPT !.pc = "done", !.exit = "break"]
    ELSE [w EXCEPT !.Interrupt = objs[w.Interrupt].Flink]

\* One iteration of the loop of KiTimedChainedDispatch2ndLvl (lines
\* 823-955): the service routine of the current object is called and
\* returns handled.
ChainedDispatchStep ==
    /\ walk.pc = "isr"
    /\ walk.stage = "chained"
    /\ Len(walk.calls) < MaxCalls
    /\ \E handled \in BOOLEAN :
         LET raised == RaisedFor(obj, walk.Interrupt, walk.Irql)
         IN  walk' = AfterServiceRoutine(
                     [walk EXCEPT !.calls = Append(walk.calls, walk.Interrupt),
                                  !.reports = Append(walk.reports, handled),
                                  !.levels = Append(walk.levels, raised),
                                  !.Irql = LoweredAfter(obj, walk.Interrupt, raised),
                                  !.Handled = walk.Handled \/ handled], obj)
    /\ UNCHANGED <<obj, idt, hal, lock, thr, isr, spin, cal, prcb>>

\* KiTimedInterruptDispatch (lines 996-1009): the one service routine.
InterruptDispatchStep ==
    /\ walk.pc = "isr"
    /\ walk.stage = "normal"
    /\ walk' = [walk EXCEPT !.calls = Append(walk.calls, walk.Interrupt),
                            !.levels = Append(walk.levels, walk.Irql),
                            !.pc = "done", !.exit = "return"]
    /\ UNCHANGED <<obj, idt, hal, lock, thr, isr, spin, cal, prcb>>

\* The dispatch routine returns and the interrupt is dismissed.
DispatchReturn ==
    /\ walk.pc = "done"
    /\ walk' = IdleWalk
    /\ UNCHANGED <<obj, idt, hal, lock, thr, isr, spin, cal, prcb>>

(***************************************************************************)
(* The dispatch routines of every processor, with the interrupt spin locks *)
(* they take around the service routine.  isr[p] is the routine running    *)
(* on processor p:                                                         *)
(*   idle     none                                                         *)
(*   acquire  at KiAcquireSpinLock (lines 846, 996)                        *)
(*   call     in the service routine (lines 852, 1002), lock held          *)
(*   release  at KiReleaseSpinLock (lines 859, 1009)                       *)
(*   done     at the return of the dispatch routine                        *)
(***************************************************************************)
NoProcessor == -1

SpinLocks == {OwnLock(o) : o \in Objs} \cup {CallerLock}

IdleIsr ==
    [ pc |-> "idle", v |-> 0, stage |-> "none", Interrupt |-> NoObject,
      ListEnd |-> NoObject, Handled |-> FALSE, calls |-> 0, exit |-> "none" ]

\* The lock the dispatch routines pass to KiAcquireSpinLock and
\* KiReleaseSpinLock for an object, were it always the object's own.
OwnLockOf(objs, o) == OwnLock(o)

\* The lock the dispatch routines pass to KiAcquireSpinLock and
\* KiReleaseSpinLock for an object (lines 846, 859, 996, 1009).
ActualLockOf(objs, o) == objs[o].ActualLock

KiAcquireSpinLock(locks, l, p) == [locks EXCEPT ![l] = p]

KiReleaseSpinLock(locks, l) == [locks EXCEPT ![l] = NoProcessor]

\* The hardware delivers an interrupt to processor p on vector v (lines
\* 805-806 for the chained stage).
SmpInterruptDelivery(p, v) ==
    /\ isr[p].pc = "idle"
    /\ hal[<<p, v>>]
    /\ idt[<<p, v>>].kind \in {"DispatchCode", "2ndDispatch"}
    /\ LET o == obj[idt[<<p, v>>].o].CodeObject
       IN  isr' = [isr EXCEPT ![p] =
                     [IdleIsr EXCEPT !.pc = "acquire", !.v = v,
                         !.stage = IF obj[o].CodeBranch = ChainedDispatchOf(v)
                                       THEN "chained" ELSE "normal",
                         !.Interrupt = o, !.ListEnd = o]]
    /\ UNCHANGED <<obj, idt, hal, lock, thr, walk, spin, cal, prcb>>

\* Lines 846 and 996: the processor spins until the lock is free and takes
\* it.
SmpAcquire(p) ==
    /\ isr[p].pc = "acquire"
    /\ isr[p].calls < MaxCalls
    /\ spin[ActualLockOf(obj, isr[p].Interrupt)] = NoProcessor
    /\ spin' = KiAcquireSpinLock(spin, ActualLockOf(obj, isr[p].Interrupt), p)
    /\ isr' = [isr EXCEPT ![p].pc = "call"]
    /\ UNCHANGED <<obj, idt, hal, lock, thr, walk, cal, prcb>>

\* Lines 852 and 1002: the service routine runs and returns; only the
\* chained stage keeps what it returned.
SmpServiceRoutine(p) ==
    /\ isr[p].pc = "call"
    /\ \E handled \in BOOLEAN :
         isr' = [isr EXCEPT ![p].pc = "release",
                            ![p].calls = isr[p].calls + 1,
                            ![p].Handled = IF isr[p].stage = "chained"
                                              THEN isr[p].Handled \/ handled
                                              ELSE FALSE]
    /\ UNCHANGED <<obj, idt, hal, lock, thr, walk, spin, cal, prcb>>

\* Lines 859-954 and 1009-1055: the lock is released; the chained stage
\* goes on to the next object or leaves the loop.
SmpRelease(p) ==
    /\ isr[p].pc = "release"
    /\ spin' = KiReleaseSpinLock(spin, ActualLockOf(obj, isr[p].Interrupt))
    /\ isr' = [isr EXCEPT ![p] =
                 IF isr[p].stage = "chained"
                 THEN AfterServiceRoutine([isr[p] EXCEPT !.pc = "acquire"], obj)
                 ELSE [isr[p] EXCEPT !.pc = "done", !.exit = "return"]]
    /\ UNCHANGED <<obj, idt, hal, lock, thr, walk, cal, prcb>>

\* Lines 957 and 1056: the dispatch routine returns.
SmpDispatchReturn(p) ==
    /\ isr[p].pc = "done"
    /\ isr' = [isr EXCEPT ![p] = IdleIsr]
    /\ UNCHANGED <<obj, idt, hal, lock, thr, walk, spin, cal, prcb>>

(***************************************************************************)
(* 64-bit unsigned arithmetic (ULONGLONG).  A value is its sixteen         *)
(* hexadecimal digits, the least significant first; every operation is     *)
(* modulo 2^64 as the machine's is.                                        *)
(***************************************************************************)
HexBase == 16

HexDigits == 16

U64Index == 1..HexDigits

\* The value written with the hexadecimal digits ds, most significant first.
Hex(ds) == [i \in U64Index |-> IF i <= Len(ds) THEN ds[Len(ds) + 1 - i] ELSE 0]

\* The value of a number below 2^31.
U64FromNat(n) ==
    [i \in U64Index |-> IF i <= 7 THEN (n \div HexBase^(i - 1)) % HexBase
                        ELSE IF i = 8 THEN n \div HexBase^7
                        ELSE 0]

Zero64 == Hex(<<>>)

\* 0xFFFFFFFFFFFFFFFF
Max64 == [i \in U64Index |-> HexBase - 1]

\* 0xFFFFFFFFFFFFFFFE
FirstPassDone == [i \in U64Index |-> IF i = 1 THEN HexBase - 2 ELSE HexBase - 1]

RECURSIVE AddDigits(_, _, _, _)
AddDigits(a, b, i, carry) ==
    IF i > HexDigits THEN <<>>
    ELSE LET d == a[i] + b[i] + carry
         IN  <<d % HexBase>> \o AddDigits(a, b, i + 1, d \div HexBase)

Add64(a, b) == AddDigits(a, b, 1, 0)

RECURSIVE SubDigits(_, _, _, _)
SubDigits(a, b, i, borrow) ==
    IF i > HexDigits THEN <<>>
    ELSE LET d == a[i] + HexBase - b[i] - borrow
         IN  <<d % HexBase>> \o SubDigits(a, b, i + 1, IF d < HexBase THEN 1 ELSE 0)

Sub64(a, b) == SubDigits(a, b, 1, 0)

RECURSIVE ColumnSum(_, _, _, _)
ColumnSum(a, b, k, i) ==
    IF i > k THEN 0 ELSE a[i] * b[k + 1 - i] + ColumnSum(a, b, k, i + 1)

RECURSIVE MulDigits(_, _, _, _)
MulDigits(a, b, k, carry) ==
    IF k > HexDigits THEN <<>>
    ELSE LET d == ColumnSum(a, b, k, 1) + carry
         IN  <<d % HexBase>> \o MulDigits(a, b, k + 1, d \div HexBase)

Mul64(a, b) == MulDigits(a, b, 1, 0)

\* The remainder, by a number n below 2^27, of the digits of a from the
\* most significant down to the i-th.
RECURSIVE RemAbove(_, _, _)
RemAbove(a, n, i) ==
    IF i > HexDigits THEN 0 ELSE (RemAbove(a, n, i + 1) * HexBase + a[i]) % n

Div64(a, n) ==
    [i \in U64Index |-> (RemAbove(a, n, i + 1) * HexBase + a[i]) \div n]

RECURSIVE GreaterFrom(_, _, _)
GreaterFrom(a, b, i) ==
    IF i = 0 THEN FALSE
    ELSE IF a[i] # b[i] THEN a[i] > b[i]
    ELSE GreaterFrom(a, b, i - 1)

Greater64(a, b) == GreaterFrom(a, b, HexDigits)

(***************************************************************************)
(* The ISR time limit: KiIsrTscLimit, KiTimeLimitIsrMicroseconds, the      *)
(* calibration record KiIsrTimerInit with its periodic timer, and the      *)
(* comparison the dispatch routines make after each service routine.       *)
(***************************************************************************)
TenMillion == 10 * 1000 * 1000

\* The state at boot, before KiInitializeInterruptTimers (lines 28-30): the
\* configured limit L and whether the processor has the RDTSC instruction.
BootCal(L, rdtsc) ==
    [ KiTimeLimitIsrMicroseconds |-> L,
      KF_RDTSC       |-> rdtsc,
      KiIsrTscLimit  |-> Max64,
      started        |-> FALSE,      \* KiInitializeInterruptTimers was called
      KiIsrTimerInit |-> "NULL",     \* NULL, allocated or freed
      InitialTime    |-> Zero64,     \* KiIsrTimerInit->InitialTime
      TimerSet       |-> FALSE,      \* SampleTimer is in the timer queue
      passes         |-> 0,          \* runs of the DPC
      Tsc            |-> Zero64,     \* what the DPC's RDTSC returned
      StaleAccess    |-> FALSE,      \* the DPC used the record when not allocated
      Overrun        |-> FALSE ]     \* the last comparison found the limit exceeded

\* KiInitializeInterruptTimers (lines 1149-1205); allocated is whether
\* ExAllocatePoolWithTag returned memory.
KiInitializeInterruptTimers(c, allocated) ==
    IF c.KiTimeLimitIsrMicroseconds = Zero64 THEN c
    ELSE IF ~c.KF_RDTSC THEN c
    ELSE IF ~allocated THEN c
    ELSE [c EXCEPT !.KiIsrTimerInit = "allocated", !.TimerSet = TRUE]

\* Lines 1131-1132 without the KeCancelTimer.
TimerLeftSet(c) == c

\* Line 1131.
KeCancelTimer(c) == [c EXCEPT !.TimerSet = FALSE]

\* Line 1132.
ExFreePool(c) == [c EXCEPT !.KiIsrTimerInit = "freed"]

\* Lines 1142-1143 in the other order.
DivideThenMultiply(Delta, L) == Mul64(Div64(Delta, TenMillion), L)

\* Lines 1142-1143: Delta *= KiTimeLimitIsrMicroseconds; Delta /= 10000000.
ScaleDelta(Delta, L) == Div64(Mul64(Delta, L), TenMillion)

\* KiInitializeInterruptTimersDpc (lines 1072-1146); t is what RDTSC returns,
\* initial what the read of KiIsrTimerInit->InitialTime returns.
KiInitializeInterruptTimersDpc(c, t, initial) ==
    LET d == [c EXCEPT !.Tsc = t, !.passes = c.passes + 1,
                       !.StaleAccess = c.StaleAccess
                                          \/ c.KiIsrTimerInit # "allocated"]
    IN  IF c.KiIsrTscLimit = Max64
        THEN [d EXCEPT !.InitialTime = t, !.KiIsrTscLimit = FirstPassDone]
        ELSE ExFreePool(KeCancelTimer(
                 [d EXCEPT !.KiIsrTscLimit =
                      ScaleDelta(Sub64(t, initial), c.KiTimeLimitIsrMicroseconds)]))

\* The configured limits, the values RDTSC returns and the adjusted elapsed
\* times of the model.
LimitSamples ==
    { Zero64, U64FromNat(1), U64FromNat(250000), U64FromNat(TenMillion),
      Hex(<<15, 15, 15, 15, 15, 15, 15, 15>>) }

TscSamples ==
    { Zero64, U64FromNat(12345), Hex(<<6, 15, 12, 2, 3, 10, 12, 0, 0>>),
      Hex(<<8, 0, 0, 0, 0, 0, 0, 0, 0, 0, 0, 0, 0, 0, 0, 0>>), Max64 }

ElapsedSamples == { Zero64, U64FromNat(12345), FirstPassDone, Max64 }

\* System initialization calls KiInitializeInterruptTimers once.
InitializeInterruptTimers ==
    /\ ~cal.started
    /\ \E allocated \in BOOLEAN :
         cal' = [KiInitializeInterruptTimers(cal, allocated) EXCEPT !.started = TRUE]
    /\ UNCHANGED <<obj, idt, hal, lock, thr, walk, isr, spin, prcb>>

\* The periodic timer set at lines 1200-1204 expires and its DPC runs.  A
\* read of a record that is not allocated returns anything.
SampleTimerExpires ==
    /\ cal.TimerSet
    /\ \E t \in TscSamples :
         \E initial \in IF cal.KiIsrTimerInit = "allocated"
                           THEN {cal.InitialTime} ELSE TscSamples :
            cal' = KiInitializeInterruptTimersDpc(cal, t, initial)
    /\ UNCHANGED <<obj, idt, hal, lock, thr, walk, isr, spin, prcb>>

\* Lines 884-896 and 1033-1045: a dispatch routine compares the adjusted
\* elapsed time of a service routine with the limit.
IsrTimeCheck ==
    /\ \E ElapsedTime \in ElapsedSamples :
         cal' = [cal EXCEPT !.Overrun = Greater64(ElapsedTime, cal.KiIsrTscLimit)]
    /\ UNCHANGED <<obj, idt, hal, lock, thr, walk, isr, spin, prcb>>

(***************************************************************************)
(* The timing of the service routines (lines 837-838, 868-905 of           *)
(* KiTimedChainedDispatch2ndLvl; 984-986, 1017-1053 of                     *)
(* KiTimedInterruptDispatch) on one processor.  prcb.Tsc is the cycle      *)
(* counter RDTSC reads, prcb.IsrTime is Prcb->IsrTime, prcb.frames the     *)
(* dispatch routines in progress, the last one running and the others      *)
(* interrupted by it.  A frame is at                                       *)
(*   StartTimeHigher  before StartTimeHigher = Prcb->IsrTime               *)
(*   StartTime        before StartTime = RDTSC()                           *)
(*   call             before the call of the service routine               *)
(*   ElapsedTime      before ElapsedTime = RDTSC() - StartTime             *)
(*   TimeHigher       before TimeHigher = Prcb->IsrTime - StartTimeHigher  *)
(*                    and ElapsedTime -= TimeHigher                        *)
(*   load, store      in Prcb->IsrTime += ElapsedTime, which is not atomic  *)
(* The cycle counter advances while a service routine runs; cost is the    *)
(* number of cycles the routine of the frame ran, raw the elapsed time     *)
(* before the adjustment.                                                  *)
(***************************************************************************)
MaxNesting == 2

MaxDispatches == 3

\* The cycles a service routine runs.
RoutineCycles == {U64FromNat(1), U64FromNat(3)}

IdlePrcb == [Tsc |-> Zero64, IsrTime |-> Zero64, frames |-> <<>>, dispatches |-> 0]

\* The locals of a dispatch routine that has left members of its chain to
\* service (1 for KiTimedInterruptDispatch).
NewFrame(left) ==
    [ pc |-> "StartTimeHigher", left |-> left, StartTimeHigher |-> Zero64,
      StartTime |-> Zero64, ElapsedTime |-> Zero64, TimeHigher |-> Zero64,
      raw |-> Zero64, cost |-> Zero64, IsrTime |-> Zero64 ]

Top(frames) == frames[Len(frames)]

WithTop(pr, f) == [pr EXCEPT !.frames[Len(pr.frames)] = f]

\* One step of the running dispatch routine.
TimedStepOf(pr, cycles) ==
    LET f == Top(pr.frames)
    IN  IF f.pc = "StartTimeHigher"
            THEN WithTop(pr, [f EXCEPT !.StartTimeHigher = pr.IsrTime, !.pc = "StartTime"])
        ELSE IF f.pc = "StartTime"
            THEN WithTop(pr, [f EXCEPT !.StartTime = pr.Tsc, !.pc = "call"])
        ELSE IF f.pc = "call"
            THEN [WithTop(pr, [f EXCEPT !.cost = cycles, !.pc = "ElapsedTime"])
                     EXCEPT !.Tsc = Add64(pr.Tsc, cycles)]
        ELSE IF f.pc = "ElapsedTime"
            THEN WithTop(pr, [f EXCEPT !.ElapsedTime = Sub64(pr.Tsc, f.StartTime),
                                       !.raw = Sub64(pr.Tsc, f.StartTime),
                                       !.pc = "TimeHigher"])
        ELSE IF f.pc = "TimeHigher"
            THEN LET TimeHigher == Sub64(pr.IsrTime, f.StartTimeHigher)
                 IN  WithTop(pr, [f EXCEPT !.TimeHigher = TimeHigher,
                                           !.ElapsedTime = Sub64(f.ElapsedTime, TimeHigher),
                                           !.pc = "load"])
        ELSE IF f.pc = "load"
            THEN WithTop(pr, [f EXCEPT !.IsrTime = pr.IsrTime, !.pc = "store"])
        ELSE LET stored == [pr EXCEPT !.IsrTime = Add64(f.IsrTime, f.ElapsedTime)]
             IN  IF f.left > 1
                     THEN WithTop(stored, NewFrame(f.left - 1))
                     ELSE [stored EXCEPT !.frames = SubSeq(pr.frames, 1, Len(pr.frames) - 1)]

\* An interrupt arrives and its dispatch routine starts: on an idle
\* processor, or on top of a dispatch routine of a lower level, at any
\* instruction of it.
TimedDispatchEnter ==
    /\ Len(prcb.frames) < MaxNesting
    /\ prcb.dispatches < MaxDispatches
    /\ \E left \in {1, 2} :
         prcb' = [prcb EXCEPT !.frames = Append(prcb.frames, NewFrame(left)),
                              !.dispatches = prcb.dispatches + 1]
    /\ UNCHANGED <<obj, idt, hal, lock, thr, walk, isr, spin, cal>>

TimedStep ==
    /\ prcb.frames # <<>>
    /\ \E cycles \in IF Top(prcb.frames).pc = "call" THEN RoutineCycles ELSE {Zero64} :
         prcb' = TimedStepOf(prcb, cycles)
    /\ UNCHANGED <<obj, idt, hal, lock, thr, walk, isr, spin, cal>>

(***************************************************************************)
(* Initial states: every object initialized by KeInitializeInterrupt with  *)
(* one of its parameter tuples, every vector on the unexpected interrupt   *)
(* stub, every line disabled.                                              *)
(***************************************************************************)
InitRest ==
    /\ hal = [s \in Slots |-> FALSE]
    /\ lock = NoThread
    /\ thr = [t \in Threads |-> IdleThread]
    /\ walk = IdleWalk
    /\ isr = [p \in Procs |-> IdleIsr]
    /\ spin = [l \in SpinLocks |-> NoProcessor]
    /\ cal = BootCal(Zero64, TRUE)
    /\ prcb = IdlePrcb

Init ==
    /\ \E f \in [Objs -> 1..Len(ParamChoices)] :
         /\ \A o \in Objs : f[o] \in ChoicesOf(o)
         /\ obj = [o \in Objs |-> KeInitializeInterrupt(o, ParamChoices[f[o]])]
    /\ idt = [s \in Slots |-> NoDispatchStub]
    /\ InitRest

\* The same with a vector owned by the HAL: a handler of no interrupt object
\* is installed in it.
InitHalOwned ==
    /\ \E f \in [Objs -> 1..Len(ParamChoices)] :
         /\ \A o \in Objs : f[o] \in ChoicesOf(o)
         /\ obj = [o \in Objs |-> KeInitializeInterrupt(o, ParamChoices[f[o]])]
    /\ idt = [s \in Slots |-> IF s = <<1, 2>> THEN ForeignHandler ELSE NoDispatchStub]
    /\ InitRest

InitMT ==
    /\ \E f \in [Objs -> 1..Len(ParamChoices)] :
         /\ \A o \in Objs : f[o] \in ChoicesOfMT(o)
         /\ obj = [o \in Objs |-> KeInitializeInterrupt(o, ParamChoices[f[o]])]
    /\ idt = [s \in Slots |-> NoDispatchStub]
    /\ InitRest

ThreadStep(t) ==
    \/ \E o \in Objs : ConnectEnter(t, o)
    \/ ConnectBody(t)
    \/ RollbackEnter(t)
    \/ RollbackBody(t)
    \/ \E o \in Objs : DisconnectEnter(t, o)
    \/ DisconnectBody(t)
    \/ Return(t)

Dispatch ==
    \/ \E s \in Slots : InterruptDelivery(s)
    \/ ChainedDispatchStep
    \/ InterruptDispatchStep
    \/ DispatchReturn

\* One caller at a time, and interrupts between the calls.
Next == ThreadStep(1) \/ Dispatch

Spec == Init /\ [][Next]_vars

SpecHalOwned == InitHalOwned /\ [][Next]_vars

\* Several threads calling concurrently.
NextMT == \E t \in Threads : ThreadStep(t)

SpecMT == InitMT /\ [][NextMT]_vars

(***************************************************************************)
(* Interrupts on every processor at once, on vectors connected before:     *)
(* objects of two processors initialized with their own lock or with the   *)
(* lock their caller shares between them, each connected by                *)
(* KeConnectInterrupt, in order.                                           *)
(***************************************************************************)
WithSpinLock(p, l) == [p EXCEPT !.SpinLock = l]

SmpParamChoices ==
    << WithSpinLock(Params(1, 1, 1, LevelSensitive, TRUE, 0, FALSE), CallerLock),
       Params(1, 1, 1, LevelSensitive, TRUE, 0, FALSE),
       WithSpinLock(Params(1, 1, 1, LevelSensitive, TRUE, 1, FALSE), CallerLock),
       WithSpinLock(Params(2, 2, 2, Latched, TRUE, 0, FALSE), CallerLock),
       Params(2, 2, 2, Latched, TRUE, 0, FALSE),
       WithSpinLock(Params(2, 2, 2, Latched, TRUE, 1, FALSE), CallerLock),
       Params(1, 1, 1, LevelSensitive, TRUE, 1, FALSE) >>

SmpChoicesOf(o) ==
    IF o = 1 THEN {1, 4}
    ELSE IF o = 2 THEN {1, 2, 5}
    ELSE IF o = 3 THEN {3, 6}
    ELSE {7}

RECURSIVE ConnectAll(_, _)
ConnectAll(m, o) ==
    IF o > NumObjs THEN m
    ELSE ConnectAll(ConnectLocked(m, AffinityOf(m.obj[o].Number), o, TRUE).m, o + 1)

InitSMP ==
    /\ \E f \in [Objs -> 1..Len(SmpParamChoices)] :
         /\ \A o \in Objs : f[o] \in SmpChoicesOf(o)
         /\ LET m == ConnectAll(
                        [ obj |-> [o \in Objs |->
                                     KeInitializeInterrupt(o, SmpParamChoices[f[o]])],
                          idt |-> [s \in Slots |-> NoDispatchStub],
                          hal |-> [s \in Slots |-> FALSE],
                          log |-> <<>> ], 1)
            IN  /\ obj = m.obj
                /\ idt = m.idt
                /\ hal = m.hal
    /\ lock = NoThread
    /\ thr = [t \in Threads |-> IdleThread]
    /\ walk = IdleWalk
    /\ isr = [p \in Procs |-> IdleIsr]
    /\ spin = [l \in SpinLocks |-> NoProcessor]
    /\ cal = BootCal(Zero64, TRUE)
    /\ prcb = IdlePrcb

NextSMP ==
    \E p \in Procs :
       \/ \E v \in Vectors : SmpInterruptDelivery(p, v)
       \/ SmpAcquire(p)
       \/ SmpServiceRoutine(p)
       \/ SmpRelease(p)
       \/ SmpDispatchReturn(p)

SpecSMP == InitSMP /\ [][NextSMP]_vars

(***************************************************************************)
(* The calibration of the ISR time limit after boot, with a configured     *)
(* limit and a processor of the model's choice, while dispatch routines    *)
(* compare elapsed times with the limit.                                   *)
(***************************************************************************)
InitTimers ==
    /\ obj = [o \in Objs |-> KeInitializeInterrupt(o, ParamChoices[1])]
    /\ idt = [s \in Slots |-> NoDispatchStub]
    /\ hal = [s \in Slots |-> FALSE]
    /\ lock = NoThread
    /\ thr = [t \in Threads |-> IdleThread]
    /\ walk = IdleWalk
    /\ isr = [p \in Procs |-> IdleIsr]
    /\ spin = [l \in SpinLocks |-> NoProcessor]
    /\ \E L \in LimitSamples : \E rdtsc \in BOOLEAN : cal = BootCal(L, rdtsc)
    /\ prcb = IdlePrcb

NextTimers ==
    \/ InitializeInterruptTimers
    \/ SampleTimerExpires
    \/ IsrTimeCheck

SpecTimers == InitTimers /\ [][NextTimers]_vars

\* The timed dispatch routines of one processor, nesting.
NextNesting == TimedDispatchEnter \/ TimedStep

InitNesting ==
    /\ obj = [o \in Objs |-> KeInitializeInterrupt(o, ParamChoices[1])]
    /\ idt = [s \in Slots |-> NoDispatchStub]
    /\ InitRest

SpecNesting == InitNesting /\ [][NextNesting]_vars

(***************************************************************************)
(* Callers that initialize interrupt objects again between their calls of  *)
(* KeConnectInterrupt and KeDisconnectInterrupt: an object that is not     *)
(* connected and not the argument of a call in progress is given to        *)
(* KeInitializeInterrupt with any of the tuples below.  The function does  *)
(* not write InterruptListEntry and DispatchAddress: they keep what the    *)
(* storage held.                                                           *)
(***************************************************************************)
WithService(p, routine, context) ==
    [p EXCEPT !.ServiceRoutine = routine, !.ServiceContext = context]

InitializeChoices ==
    << Params(1, 1, 1, LevelSensitive, TRUE, 0, FALSE),
       WithService(WithSpinLock(Params(1, 1, 1, LevelSensitive, TRUE, 0, FALSE),
                                CallerLock), "OtherRoutine", "OtherContext"),
       WithSpinLock(Params(2, 2, 1, Latched, FALSE, KeNumberProcessors, TRUE),
                    CallerLock),
       WithService(Params(1, HIGH_LEVEL + 1, 0, Latched, TRUE, 0 - AffinityBits, TRUE),
                   "OtherRoutine", "ServiceContext") >>

\* The tuples each object of the model is initialized again from.
InitializeChoicesOf(o) ==
    IF o = 1 THEN {2}
    ELSE IF o = 2 THEN {1, 3}
    ELSE IF o = 3 THEN {4}
    ELSE {1}

InitializeInterrupt(o, i) ==
    /\ ~obj[o].Connected
    /\ \A t \in Threads : thr[t].pc = "idle" \/ thr[t].o # o
    /\ obj' = [obj EXCEPT ![o] =
                 [KeInitializeInterrupt(o, InitializeChoices[i])
                    EXCEPT !.Flink = obj[o].Flink, !.Blink = obj[o].Blink,
                           !.DispatchAddress = obj[o].DispatchAddress]]
    /\ UNCHANGED <<idt, hal, lock, thr, walk, isr, spin, cal, prcb>>

NextInitialize ==
    \/ ThreadStep(1)
    \/ \E o \in Objs : \E i \in InitializeChoicesOf(o) : InitializeInterrupt(o, i)

SpecInitialize == InitMT /\ [][NextInitialize]_vars

(***************************************************************************)
(* Shareable objects of one vector and one mode whose request and          *)
(* synchronize levels differ from object to object: KeConnectInterrupt     *)
(* compares neither level when it chains an object (lines 340-343).        *)
(***************************************************************************)
IrqlParamChoices ==
    << Params(1, 1, 1, LevelSensitive, TRUE, 0, FALSE),
       Params(1, 2, 2, LevelSensitive, TRUE, 0, FALSE),
       Params(1, 1, 2, LevelSensitive, TRUE, 0, FALSE) >>

IrqlChoicesOf(o) ==
    IF o = 1 THEN {1, 2}
    ELSE IF o = 2 THEN {2, 3}
    ELSE {1}

InitIrql ==
    /\ \E f \in [Objs -> 1..Len(IrqlParamChoices)] :
         /\ \A o \in Objs : f[o] \in IrqlChoicesOf(o)
         /\ obj = [o \in Objs |-> KeInitializeInterrupt(o, IrqlParamChoices[f[o]])]
    /\ idt = [s \in Slots |-> NoDispatchStub]
    /\ InitRest

SpecIrql == InitIrql /\ [][Next]_vars

(***************************************************************************)
(* One caller whose locked sections run write by write, and interrupts     *)
(* between any two writes.                                                 *)
(***************************************************************************)
InterruptibleChoicesOf(o) ==
    IF o = 1 THEN {1}
    ELSE IF o = 2 THEN {1, 2}
    ELSE {1, 3, 4}

InitInterruptible ==
    /\ \E f \in [Objs -> 1..Len(ParamChoices)] :
         /\ \A o \in Objs : f[o] \in InterruptibleChoicesOf(o)
         /\ obj = [o \in Objs |-> KeInitializeInterrupt(o, ParamChoices[f[o]])]
    /\ idt = [s \in Slots |-> NoDispatchStub]
    /\ InitRest

InterruptibleStep(t) ==
    \/ \E o \in Objs : ConnectEnter(t, o)
    \/ RollbackEnter(t)
    \/ \E o \in Objs : DisconnectEnter(t, o)
    \/ SectionBegin(t)
    \/ SectionWrite(t)
    \/ SectionEnd(t)
    \/ Return(t)

NextInterruptible == InterruptibleStep(1) \/ Dispatch

SpecInterruptible == InitInterruptible /\ [][NextInterruptible]_vars

(***************************************************************************)
(* What the properties below talk about.                                   *)
(***************************************************************************)
\* The classification and the occupant KiGetVectorInfo finds in slot s.
TypeOf(objs, table, s) == KiGetVectorInfo(objs, table, s[1], s[2]).Type

OccupantOf(objs, table, s) == KiGetVectorInfo(objs, table, s[1], s[2]).Interrupt

\* The processor and vector object o is initialized for.
SlotOf(o) == <<AffinityOf(obj[o].Number), obj[o].Vector>>

\* Parameters outside the documented ranges.
OutOfRange(int) ==
    \/ int.Irql > HIGH_LEVEL
    \/ int.Number \notin 0..(KeNumberProcessors - 1)
    \/ int.SynchronizeIrql < int.Irql
    \/ int.FloatingSave

RECURSIVE ChainFrom(_, _, _, _)
\* The objects met following Flink from cur until the link back to head.
ChainFrom(objs, head, cur, n) ==
    IF n = 0 \/ cur \notin Objs THEN <<>>
    ELSE IF objs[cur].Flink = head THEN <<cur>>
    ELSE <<cur>> \o ChainFrom(objs, head, objs[cur].Flink, n - 1)

\* The object installed in slot s: the one whose dispatch code the processor
\* enters on an interrupt of that vector.
InstalledObject(table, s) ==
    IF table[s].kind \in {"DispatchCode", "2ndDispatch"} THEN table[s].o
    ELSE NoObject

\* The objects a vector dispatches to, first dispatched first: the installed
\* object alone, or the chain reachable from it when its dispatch code
\* branches to the chained dispatch routine.
ChainOrder(objs, table, s) ==
    LET o == InstalledObject(table, s)
    IN  IF o = NoObject THEN <<>>
        ELSE IF objs[o].CodeBranch = ChainedDispatchOf(s[2])
            THEN ChainFrom(objs, o, o, NumObjs)
        ELSE <<o>>

Members(seq) == {seq[i] : i \in 1..Len(seq)}

Without(seq, o) == SelectSeq(seq, LAMBDA x : x # o)

(***************************************************************************)
(* C1.  KeConnectInterrupt on an object whose Irql is above HIGH_LEVEL,    *)
(* whose Number is outside 0..KeNumberProcessors-1, whose SynchronizeIrql  *)
(* is below its Irql or which asks for a floating save returns FALSE       *)
(* without taking the dispatcher lock, pinning the thread or touching the  *)
(* object, a vector or a line: such a call is only ever at its return      *)
(* statement, with FALSE, unpinned, the lock not held, nothing done, the   *)
(* object unconnected.                                                     *)
(* Violated: a negative Number passes the test of line 281.                *)
(***************************************************************************)
C1_InvalidParametersRefused ==
    \A t \in Threads :
        (thr[t].op = "Connect" /\ OutOfRange(obj[thr[t].o])) =>
            /\ thr[t].pc = "return"
            /\ ~thr[t].Connected
            /\ thr[t].affinity = UserAffinity
            /\ lock # t
            /\ thr[t].log = <<>>
            /\ ~obj[thr[t].o].Connected

(***************************************************************************)
(* C2.  KeConnectInterrupt on a valid unconnected object whose vector is   *)
(* classified NoConnect, with HalEnableSystemInterrupt succeeding, returns *)
(* TRUE and leaves the object connected, the vector NormalConnect with the *)
(* object its occupant, the line enabled, and the object's list entry a    *)
(* circular list of the object alone.                                      *)
(* Violated for a vector of the flat table, which KiGetVectorInfo does not *)
(* classify NormalConnect after the connect (see C22).                     *)
(***************************************************************************)
C2_ConnectToFreeVector ==
    [][\A t \in Threads :
         LET o == thr[t].o
             s == <<thr[t].affinity, obj[thr[t].o].Vector>>
         IN  ( /\ ConnectBody(t)
               /\ ~OutOfRange(obj[o])
               /\ ~obj[o].Connected
               /\ TypeOf(obj, idt, s) = NoConnect
               /\ ~thr'[t].ConnectError )
             => ( /\ thr'[t].pc = "return"
                  /\ thr'[t].Connected
                  /\ obj'[o].Connected
                  /\ TypeOf(obj', idt', s) = NormalConnect
                  /\ OccupantOf(obj', idt', s) = o
                  /\ hal'[s]
                  /\ obj'[o].Flink = o
                  /\ obj'[o].Blink = o )]_vars

C2_Witness ==
    \E t \in Threads :
        /\ thr[t].pc = "return" /\ thr[t].op = "Connect"
        /\ thr[t].Connected /\ ~thr[t].ConnectError
        /\ ~OutOfRange(obj[thr[t].o])
        /\ Len(thr[t].log) = 3
        /\ thr[t].log[3][1] = "HalEnableSystemInterrupt"
        /\ obj[thr[t].o].Connected
        /\ obj[thr[t].o].Flink = thr[t].o
        /\ hal[SlotOf(thr[t].o)]

(***************************************************************************)
(* C3.  A second shareable object of the occupant's mode connected to a    *)
(* vector in which a shareable object is installed alone joins it: the     *)
(* call returns TRUE, both are connected, the vector is ChainConnect and   *)
(* its chain is the two of them.  Disconnecting either of the two members  *)
(* of such a chain returns TRUE and leaves the other connected, alone on   *)
(* its list, the occupant of the vector, the vector NormalConnect and the  *)
(* line still enabled.                                                     *)
(* Violated for a vector of the flat table: KiGetVectorInfo classifies it  *)
(* UnknownConnect once an object is installed (see C22), and the second    *)
(* connect is refused.                                                     *)
(***************************************************************************)
C3_ChainOfTwoAndBack ==
    [][\A t \in Threads :
         LET o == thr[t].o
             s == <<thr[t].affinity, obj[thr[t].o].Vector>>
             a == InstalledObject(idt, s)
             b == obj[thr[t].o].Flink
         IN  /\ ( /\ ConnectBody(t)
                  /\ ~OutOfRange(obj[o])
                  /\ ~obj[o].Connected
                  /\ ChainOrder(obj, idt, s) = <<a>>
                  /\ obj[o].ShareVector
                  /\ obj[a].ShareVector
                  /\ obj[a].Mode = obj[o].Mode )
                => ( /\ thr'[t].pc = "return"
                     /\ thr'[t].Connected
                     /\ obj'[a].Connected
                     /\ obj'[o].Connected
                     /\ TypeOf(obj', idt', s) = ChainConnect
                     /\ ChainOrder(obj', idt', s) = <<a, o>>
                     /\ obj'[a].Blink = o /\ obj'[o].Blink = a
                     /\ hal'[s] )
             /\ ( /\ DisconnectBody(t)
                  /\ obj[o].Connected
                  /\ TypeOf(obj, idt, s) = ChainConnect
                  /\ Members(ChainOrder(obj, idt, s)) = {o, b}
                  /\ b # o )
                => ( /\ thr'[t].pc = "return"
                     /\ thr'[t].Connected
                     /\ ~obj'[o].Connected
                     /\ obj'[b].Connected
                     /\ obj'[b].Flink = b /\ obj'[b].Blink = b
                     /\ TypeOf(obj', idt', s) = NormalConnect
                     /\ OccupantOf(obj', idt', s) = b
                     /\ hal'[s] )]_vars

\* A disconnect has returned TRUE and left the other member of its chain
\* alone on an enabled NormalConnect vector.
C3_Witness ==
    \E t \in Threads :
        LET o == thr[t].o
            b == obj[thr[t].o].Flink
        IN  /\ thr[t].pc = "return" /\ thr[t].op = "Disconnect"
            /\ thr[t].Connected
            /\ b \in Objs /\ b # o
            /\ ~obj[o].Connected
            /\ obj[b].Connected
            /\ obj[b].Flink = b
            /\ SlotOf(b) = SlotOf(o)
            /\ TypeOf(obj, idt, SlotOf(b)) = NormalConnect
            /\ OccupantOf(obj, idt, SlotOf(b)) = b
            /\ hal[SlotOf(b)]

(***************************************************************************)
(* C4.  KeConnectInterrupt on a vector that is not NoConnect returns FALSE *)
(* and changes nothing (no object, no vector, no line, nothing patched or  *)
(* called) whenever the vector classifies UnknownConnect, or the new       *)
(* object is not shareable, or the occupant is not shareable, or the       *)
(* occupant's mode differs from the new object's.                          *)
(***************************************************************************)
C4_SharingConflictRefused ==
    [][\A t \in Threads :
         LET o == thr[t].o
             s == <<thr[t].affinity, obj[thr[t].o].Vector>>
             a == OccupantOf(obj, idt, s)
         IN  ( /\ ConnectBody(t)
               /\ TypeOf(obj, idt, s) # NoConnect
               /\ \/ TypeOf(obj, idt, s) = UnknownConnect
                  \/ ~obj[o].ShareVector
                  \/ ~obj[a].ShareVector
                  \/ obj[a].Mode # obj[o].Mode )
             => ( /\ thr'[t].pc = "return"
                  /\ ~thr'[t].Connected
                  /\ thr'[t].log = <<>>
                  /\ UNCHANGED <<obj, idt, hal>> )]_vars

\* A connect of a valid, unconnected, non-shareable object to an occupied
\* vector has returned FALSE.
C4_Witness ==
    \E t \in Threads :
        /\ thr[t].pc = "return" /\ thr[t].op = "Connect"
        /\ ~thr[t].Connected /\ ~thr[t].ConnectError
        /\ ~OutOfRange(obj[thr[t].o])
        /\ ~obj[thr[t].o].Connected
        /\ ~obj[thr[t].o].ShareVector
        /\ TypeOf(obj, idt, SlotOf(thr[t].o)) \in {NormalConnect, ChainConnect}

\* The same for a shareable object and a vector that holds a handler of no
\* interrupt object.
C4_UnknownOccupantReached ==
    \E t \in Threads :
        /\ thr[t].pc = "return" /\ thr[t].op = "Connect"
        /\ ~thr[t].Connected
        /\ ~OutOfRange(obj[thr[t].o])
        /\ obj[thr[t].o].ShareVector
        /\ TypeOf(obj, idt, SlotOf(thr[t].o)) = UnknownConnect

(***************************************************************************)
(* C5.  With one caller at a time, a KeConnectInterrupt whose              *)
(* HalEnableSystemInterrupt failed returns FALSE with the object not       *)
(* connected, its vector classified NoConnect again and the line not       *)
(* enabled.                                                                *)
(***************************************************************************)
C5_EnableFailureRolledBack ==
    \A t \in Threads :
        (thr[t].pc = "return" /\ thr[t].op = "Connect" /\ thr[t].ConnectError) =>
            /\ ~thr[t].Connected
            /\ ~obj[thr[t].o].Connected
            /\ TypeOf(obj, idt, SlotOf(thr[t].o)) = NoConnect
            /\ OccupantOf(obj, idt, SlotOf(thr[t].o)) = NoObject
            /\ ~hal[SlotOf(thr[t].o)]

\* Such a call at its return: it connected, failed to enable, disabled,
\* unbound the vector and swept.
C5_Witness ==
    \E t \in Threads :
        /\ thr[t].pc = "return" /\ thr[t].op = "Connect" /\ thr[t].ConnectError
        /\ ~OutOfRange(obj[thr[t].o])
        /\ Len(thr[t].log) = 6
        /\ thr[t].log[3][1] = "HalEnableSystemInterrupt"
        /\ thr[t].log[4][1] = "HalDisableSystemInterrupt"

(***************************************************************************)
(* C6.  Under any interleaving of KeConnectInterrupt and                   *)
(* KeDisconnectInterrupt calls, once every call has returned no object is  *)
(* connected on a vector whose line is not enabled.                        *)
(* Violated: between the unlock of line 379 and the disconnect of line 392 *)
(* another caller chains a second object to the one being rolled back.     *)
(***************************************************************************)
C6_ConnectedImpliesLineEnabled ==
    (\A t \in Threads : thr[t].pc = "idle") =>
        \A o \in Objs : obj[o].Connected => hal[SlotOf(o)]

(***************************************************************************)
(* C7.  KeConnectInterrupt on an object whose Connected is already TRUE    *)
(* returns FALSE and changes nothing: no object, vector or line changes,   *)
(* and nothing is patched, bound, enabled or disabled.                     *)
(***************************************************************************)
C7_ConnectOfConnectedRefused ==
    [][\A t \in Threads :
         (ConnectBody(t) /\ obj[thr[t].o].Connected)
         => ( /\ thr'[t].pc = "return"
              /\ ~thr'[t].Connected
              /\ thr'[t].log = <<>>
              /\ UNCHANGED <<obj, idt, hal>> )]_vars

C7_Witness ==
    \E t \in Threads :
        /\ thr[t].pc = "return" /\ thr[t].op = "Connect"
        /\ ~thr[t].Connected /\ ~thr[t].ConnectError
        /\ obj[thr[t].o].Connected
        /\ OccupantOf(obj, idt, SlotOf(thr[t].o)) = thr[t].o

C9_ConnectedIffDispatched ==
    lock = NoThread =>
        /\ \A o \in Objs :
             obj[o].Connected <=>
                 /\ AffinityOf(obj[o].Number) \in Procs
                 /\ o \in Members(ChainOrder(obj, idt, SlotOf(o)))
        /\ \A s \in Slots : \A o \in Members(ChainOrder(obj, idt, s)) :
             o \in Objs /\ SlotOf(o) = s

\* The lock is free in the middle of a call: a connect is about to roll
\* back an object that another caller has chained to in the meantime, and a
\* third object has been disconnected.
C9_Witness ==
    /\ lock = NoThread
    /\ \E t \in Threads :
         /\ thr[t].pc = "rollback"
         /\ TypeOf(obj, idt, SlotOf(thr[t].o)) = ChainConnect
         /\ thr[t].o \in Members(ChainOrder(obj, idt, SlotOf(thr[t].o)))
    /\ \E o \in Objs : ~obj[o].Connected /\ obj[o].Flink # NoObject

\* The service routines called so far by a chained dispatch are the dispatch
\* order of its vector, repeated from the start after the last.
WalkFollows(w, objs, table) ==
    w.stage = "chained" =>
        LET order == ChainOrder(objs, table, <<w.p, w.v>>)
        IN  /\ \A i \in 1..Len(w.calls) :
                 w.calls[i] = order[((i - 1) % Len(order)) + 1]
            /\ w.exit = "break" => w.calls = order

(***************************************************************************)
(* C10.  The order of a chain is the order of connection: a connect that   *)
(* succeeds puts its object last in the dispatch order of its vector and   *)
(* leaves the others in place; a disconnect removes its object and keeps   *)
(* the order of the rest, and when the object removed was the first the    *)
(* vector is rebound to the next, which becomes the first dispatched; the  *)
(* chained dispatch calls the service routines in that order, starting     *)
(* with the installed object, and a pass over an edge-triggered chain in   *)
(* which no routine handles the interrupt calls each member once, in that  *)
(* order.                                                                  *)
(***************************************************************************)
C10_ChainOrderIsConnectionOrder ==
    [][/\ \A t \in Threads :
            LET o == thr[t].o
                s == <<thr[t].affinity, obj[thr[t].o].Vector>>
                before == ChainOrder(obj, idt, s)
                after == ChainOrder(obj', idt', s)
            IN  /\ (ConnectBody(t) /\ thr'[t].Connected)
                   => after = Append(before, o)
                /\ ((DisconnectBody(t) \/ RollbackBody(t)) /\ obj[o].Connected)
                   => /\ after = Without(before, o)
                      /\ (Len(before) > 1 /\ before[1] = o)
                         => InstalledObject(idt', s) = before[2]
       /\ WalkFollows(walk', obj', idt')]_vars

\* Object 1 was connected first, then 3, then 2; 1 has been disconnected;
\* an interrupt on the edge-triggered chain that nobody handled has called
\* 3 and then 2.
C10_Witness ==
    /\ walk.pc = "done" /\ walk.stage = "chained" /\ walk.exit = "break"
    /\ walk.calls = <<3, 2>>
    /\ obj[3].Mode = Latched
    /\ ~obj[1].Connected
    /\ obj[1].Flink = 3 /\ obj[1].Blink = 2
    /\ SlotOf(1) = SlotOf(3)

\* The machine state made of given objects, tables and lines.
MachineOf(objs, table, lines) ==
    [obj |-> objs, idt |-> table, hal |-> lines, log |-> <<>>]

\* What a caller can tell of slot s in machine state m.
SlotSummary(m, s) ==
    [ Type      |-> TypeOf(m.obj, m.idt, s),
      Interrupt |-> OccupantOf(m.obj, m.idt, s),
      Enabled   |-> m.hal[s] ]

(***************************************************************************)
(* C11.  Take any KeConnectInterrupt that succeeds, on a free vector or    *)
(* joining the occupant of a shared one.  KeDisconnectInterrupt of the     *)
(* same object from the state it reached returns TRUE, and                 *)
(* KeConnectInterrupt of the object again (the HAL enabling the line as it *)
(* did the first time) returns TRUE and reaches the classification, the    *)
(* occupant and the line state the first connect reached, with the object  *)
(* connected.                                                              *)
(***************************************************************************)
C11_ReconnectReachesSameState ==
    [][\A t \in Threads :
         LET o == thr[t].o
             p == thr[t].affinity
             s == <<thr[t].affinity, obj[thr[t].o].Vector>>
             first == MachineOf(obj', idt', hal')
             undone == DisconnectLocked(first, p, o)
             again == ConnectLocked(undone.m, p, o, TRUE)
         IN  (ConnectBody(t) /\ thr'[t].Connected /\ ~thr'[t].ConnectError)
             => ( /\ undone.Connected
                  /\ ~undone.m.obj[o].Connected
                  /\ again.Connected
                  /\ ~again.ConnectError
                  /\ again.m.obj[o].Connected
                  /\ SlotSummary(again.m, s) = SlotSummary(first, s) )]_vars

\* A connect has returned TRUE for an object that joined the chain of a
\* vector another object occupies, while a third object is alone on its own
\* vector.
C11_Witness ==
    \E t \in Threads :
        LET o == thr[t].o
            order == ChainOrder(obj, idt, SlotOf(thr[t].o))
        IN  /\ thr[t].pc = "return" /\ thr[t].op = "Connect"
            /\ thr[t].Connected /\ ~thr[t].ConnectError
            /\ Len(order) = 2 /\ order[2] = o
            /\ hal[SlotOf(o)]
            /\ \E a \in Objs :
                 /\ obj[a].Connected
                 /\ SlotOf(a) # SlotOf(o)
                 /\ ChainOrder(obj, idt, SlotOf(a)) = <<a>>

\* The dispatch order of the vector the running dispatch routine serves.
WalkOrder == ChainOrder(obj, idt, <<walk.p, walk.v>>)

(***************************************************************************)
(* C12.  In the chained dispatch of a level-triggered chain, the walk      *)
(* stops with the first member whose service routine reports handled: no   *)
(* member before it had, the routine returns at once, the routines called  *)
(* are the members of the chain from its head up to and including that     *)
(* member, each once, and once the routine has returned no other service   *)
(* routine is called.                                                      *)
(***************************************************************************)
C12_LevelWalkStopsAtFirstClaimant ==
    [][/\ ( /\ ChainedDispatchStep
            /\ obj[walk.Interrupt].Mode = LevelSensitive
            /\ walk'.Handled )
          => ( /\ ~walk.Handled
               /\ walk'.pc = "done"
               /\ walk'.exit = "return"
               /\ Len(walk'.calls) <= Len(WalkOrder)
               /\ walk'.calls = SubSeq(WalkOrder, 1, Len(walk'.calls))
               /\ walk'.calls[Len(walk'.calls)] = walk.Interrupt )
       /\ (walk.pc = "done" /\ walk' # walk) => walk' = IdleWalk]_vars

\* The second of three members of a level-triggered chain has claimed the
\* interrupt: the third is not called.
C12_Witness ==
    /\ walk.pc = "done" /\ walk.stage = "chained" /\ walk.exit = "return"
    /\ walk.Handled
    /\ obj[walk.Interrupt].Mode = LevelSensitive
    /\ Len(WalkOrder) = 3
    /\ walk.calls = SubSeq(WalkOrder, 1, 2)

(***************************************************************************)
(* C13, as claimed.  In the chained dispatch of an edge-triggered chain,   *)
(* when the walk reaches the end of the list and no member has reported    *)
(* handled, the walk goes back to the head and polls the chain again.      *)
(* Violated: the routine leaves the loop (line 948).                       *)
(***************************************************************************)
C13_EdgeRestartsWhenUnclaimed ==
    [][( /\ ChainedDispatchStep
         /\ obj[walk.Interrupt].Mode = Latched
         /\ obj[walk.Interrupt].Flink = walk.ListEnd
         /\ ~walk'.Handled )
       => ( /\ walk'.pc = "isr"
            /\ walk'.Interrupt = walk.ListEnd )]_vars

(***************************************************************************)
(* C13, amended.  In the chained dispatch of an edge-triggered chain, when *)
(* the walk reaches the end of the list and no member has reported handled *)
(* since the routine was entered, the routine returns, every member called *)
(* once in dispatch order; when some member has reported handled, the walk *)
(* goes back to the head and polls the chain again.                        *)
(***************************************************************************)
C13_EdgeRestartsWhileClaimed ==
    [][( /\ ChainedDispatchStep
         /\ obj[walk.Interrupt].Mode = Latched
         /\ obj[walk.Interrupt].Flink = walk.ListEnd )
       => IF walk'.Handled
          THEN /\ walk'.pc = "isr"
               /\ walk'.exit = "none"
               /\ walk'.Interrupt = walk.ListEnd
               /\ walk'.Interrupt = WalkOrder[1]
          ELSE /\ walk'.pc = "done"
               /\ walk'.exit = "break"
               /\ walk'.calls = WalkOrder]_vars

\* An edge-triggered chain of three has been polled once and nobody claimed
\* the interrupt: the routine has left the loop.
C13_Witness ==
    /\ walk.pc = "done" /\ walk.stage = "chained" /\ walk.exit = "break"
    /\ ~walk.Handled
    /\ obj[walk.Interrupt].Mode = Latched
    /\ Len(WalkOrder) = 3
    /\ walk.calls = WalkOrder

(***************************************************************************)
(* C14.  The chained dispatch of a level-triggered chain never returns     *)
(* normally when a full pass ended with no member reporting handled.       *)
(* Violated: the routine leaves the loop at line 949 and returns.          *)
(***************************************************************************)
C14_UnclaimedLevelInterruptIsFatal ==
    ( /\ walk.pc = "done" /\ walk.stage = "chained"
      /\ obj[walk.Interrupt].Mode = LevelSensitive
      /\ ~walk.Handled )
    => walk.exit \notin {"return", "break"}

(***************************************************************************)
(* C16.  Every write Connect or Disconnect makes to a vector slot, a       *)
(* dispatch-code branch, a chain link or a connected flag is made by the   *)
(* thread that holds the dispatcher lock, pinned to the processor the      *)
(* object of the call belongs to (its Number); the lock has one holder at  *)
(* most; and a call at its return statement holds no lock and runs with    *)
(* its own affinity.  Violated: an object whose Number is negative passes  *)
(* the check of line 281 (C1) and is written by a thread pinned to the     *)
(* processor 1 << Number selects.                                          *)
(***************************************************************************)
C16_WritesPinnedAndLocked ==
    [][/\ (obj' # obj \/ idt' # idt)
          => \E t \in Threads :
               /\ lock = t
               /\ thr[t].pc \in {"connect", "rollback_locked", "disconnect"}
               /\ thr[t].affinity = obj[thr[t].o].Number
               /\ \A u \in Threads \ {t} :
                    thr[u].pc \notin {"connect", "rollback_locked", "disconnect"}
       /\ \A t \in Threads :
            thr'[t].pc = "return"
            => lock' # t /\ thr'[t].affinity = UserAffinity]_vars

\* The events the call at its return statement made after its i-th one.
RECURSIVE SweptBefore(_, _)
SweptBefore(log, i) ==
    IF i > Len(log) THEN TRUE
    ELSE IF log[i][1] = "KeSweepIcache" THEN TRUE
    ELSE IF log[i][1] = "vector" THEN FALSE
    ELSE SweptBefore(log, i + 1)

(***************************************************************************)
(* C17.  In every call of Connect and Disconnect, a patch of a dispatch    *)
(* code's branch is followed by KeSweepIcache before the next write of a   *)
(* vector slot.  Violated: KiConnectVectorAndInterruptObject writes the    *)
(* vector right after the patch (lines 730-772), and the only sweep is the *)
(* one at the end of KeDisconnectInterrupt (line 539).                     *)
(***************************************************************************)
C17_SweepBetweenPatchAndVector ==
    \A t \in Threads :
       thr[t].pc = "return"
       => \A i \in 1..Len(thr[t].log) :
            thr[t].log[i][1] = "patch" => SweptBefore(thr[t].log, i + 1)

\* The locks processor p holds.
HeldBy(p) == {l \in SpinLocks : spin[l] = p}

(***************************************************************************)
(* C15.  With the dispatch routines of several processors running at once, *)
(* no two service routines whose objects are guarded by the same lock (an  *)
(* object's own, or the one a caller shares between objects) run at the    *)
(* same time; a dispatch routine holds the lock of the object it is        *)
(* calling from just before the call to just after it and no lock at any   *)
(* other point, so never two, and none when it returns.                    *)
(***************************************************************************)
C15_ServiceRoutinesSerializedByLock ==
    /\ \A p \in Procs : \A q \in Procs \ {p} :
          (isr[p].pc = "call" /\ isr[q].pc = "call")
          => obj[isr[p].Interrupt].ActualLock # obj[isr[q].Interrupt].ActualLock
    /\ \A p \in Procs :
          /\ Cardinality(HeldBy(p)) <= 1
          /\ HeldBy(p) = IF isr[p].pc \in {"call", "release"}
                            THEN {obj[isr[p].Interrupt].ActualLock}
                            ELSE {}

\* Processor 0 is in the service routine of an object guarded by the
\* caller's lock while processor 1 waits for that lock for another object.
C15_Witness ==
    /\ isr[0].pc = "call"
    /\ isr[1].pc = "acquire"
    /\ isr[0].Interrupt # isr[1].Interrupt
    /\ obj[isr[0].Interrupt].ActualLock = CallerLock
    /\ obj[isr[1].Interrupt].ActualLock = CallerLock
    /\ isr[0].stage = "chained" /\ isr[0].calls = 1

\* The largest quotient of a 64-bit value by ten million, 0x1AD7F29ABCA.
MaxQuotient == Hex(<<1, 10, 13, 7, 15, 2, 9, 10, 11, 12, 10>>)

\* q is the integer part of a / 10,000,000: q times ten million does not
\* pass 2^64, is not above a, and falls short of it by less than ten million.
IsFloorOfTenMillionth(q, a) ==
    /\ ~Greater64(q, MaxQuotient)
    /\ Greater64(U64FromNat(TenMillion),
                 Sub64(a, Mul64(q, U64FromNat(TenMillion))))

(***************************************************************************)
(* C18.  After the two calibration callbacks KiIsrTscLimit is the integer  *)
(* part of D * L / 10,000,000, where D is the difference, as a 64-bit      *)
(* unsigned value, of the cycle counter read by the two callbacks, L is    *)
(* the configured limit (not zero, 32 bits) and the product D * L is the   *)
(* 64-bit unsigned one, its low 64 bits.                                   *)
(***************************************************************************)
C18_LimitIsScaledDelta ==
    cal.passes = 2
    => IsFloorOfTenMillionth(
           cal.KiIsrTscLimit,
           Mul64(Sub64(cal.Tsc, cal.InitialTime), cal.KiTimeLimitIsrMicroseconds))

\* The counter went from 12345 to 0xFFFFFFFFFFFFFFFF between the callbacks
\* and the limit is 0xFFFFFFFF microseconds: the product passes 2^64 and the
\* limit is computed from its low 64 bits.
C18_Witness ==
    /\ cal.passes = 2
    /\ cal.InitialTime = U64FromNat(12345)
    /\ cal.Tsc = Max64
    /\ cal.KiTimeLimitIsrMicroseconds = Hex(<<15, 15, 15, 15, 15, 15, 15, 15>>)
    /\ cal.KiIsrTscLimit = Hex(<<1, 10, 13, 7, 14, 13, 8, 12, 2, 10, 4>>)

(***************************************************************************)
(* C19.  As long as the second calibration callback has not completed,     *)
(* KiIsrTscLimit is 0xFFFFFFFFFFFFFFFF and no comparison of an adjusted    *)
(* elapsed time with it finds the limit exceeded.  Violated: the first     *)
(* callback stores 0xFFFFFFFFFFFFFFFE (line 1119).                         *)
(***************************************************************************)
C19_LimitDisabledUntilCalibrated ==
    cal.passes < 2 => (cal.KiIsrTscLimit = Max64 /\ ~cal.Overrun)

(***************************************************************************)
(* C20.  The calibration callback runs twice and no more.  The first run   *)
(* records the start timestamp (and marks the pass in KiIsrTscLimit),      *)
(* leaving the timer set and the record allocated; the second computes the *)
(* limit, cancels the timer and frees the record.  After the second run,   *)
(* whatever limit it computed, the callback does not run, the record is    *)
(* not read or written and KiIsrTscLimit does not change.                  *)
(***************************************************************************)
C20_CalibrationRunsTwice ==
    [][/\ cal'.passes # cal.passes
          => /\ cal.passes < 2
             /\ cal'.passes = cal.passes + 1
             /\ cal.KiIsrTimerInit = "allocated"
       /\ (cal.passes = 0 /\ cal'.passes = 1)
          => cal' = [cal EXCEPT !.passes = 1, !.Tsc = cal'.Tsc,
                                !.InitialTime = cal'.Tsc,
                                !.KiIsrTscLimit = FirstPassDone]
       /\ (cal.passes = 1 /\ cal'.passes = 2)
          => /\ ~cal'.TimerSet
             /\ cal'.KiIsrTimerInit = "freed"
             /\ cal'.InitialTime = cal.InitialTime
             /\ cal'.KiIsrTscLimit # FirstPassDone
             /\ cal'.KiIsrTscLimit # Max64
       /\ cal.passes = 2
          => /\ cal'.KiIsrTscLimit = cal.KiIsrTscLimit
             /\ cal'.InitialTime = cal.InitialTime
             /\ cal'.KiIsrTimerInit = "freed"
             /\ ~cal'.TimerSet
             /\ ~cal'.StaleAccess]_vars

\* Both callbacks have run, the limit computed is zero, and a dispatch
\* routine has since found an elapsed time above it.
C20_Witness ==
    /\ cal.passes = 2
    /\ cal.KiIsrTimerInit = "freed"
    /\ ~cal.TimerSet
    /\ cal.KiIsrTscLimit = Zero64
    /\ cal.Tsc = cal.InitialTime
    /\ cal.Overrun

(***************************************************************************)
(* C21.  KeInitializeInterrupt, whatever its parameters (in range or not), *)
(* stores each of them in the object, makes the object's dispatch code     *)
(* refer to the object itself, takes the caller's lock when one is given   *)
(* and the object's own otherwise, leaves Connected FALSE, and changes no  *)
(* vector, no interrupt line and no other object.                          *)
(***************************************************************************)
C21_InitializeStoresParameters ==
    [][\A o \in Objs : \A i \in InitializeChoicesOf(o) :
          InitializeInterrupt(o, i)
          => LET p == InitializeChoices[i]
                 int == obj'[o]
             IN  /\ int.ServiceRoutine = p.ServiceRoutine
                 /\ int.ServiceContext = p.ServiceContext
                 /\ int.Vector = p.Vector
                 /\ int.Irql = p.Irql
                 /\ int.SynchronizeIrql = p.SynchronizeIrql
                 /\ int.Mode = p.Mode
                 /\ int.ShareVector = p.ShareVector
                 /\ int.Number = p.Number
                 /\ int.FloatingSave = p.FloatingSave
                 /\ int.ActualLock = IF p.SpinLock = NullSpinLock
                                        THEN OwnLock(o) ELSE p.SpinLock
                 /\ int.CodeObject = o
                 /\ int.CodeBranch = "template"
                 /\ ~int.Connected
                 /\ \A x \in Objs \ {o} : obj'[x] = obj[x]
                 /\ UNCHANGED <<idt, hal, lock, thr, walk, isr, spin, cal, prcb>>]_vars

\* Object 1, which had been connected and disconnected, has been initialized
\* again with the caller's lock and another service routine while another
\* object is connected.
C21_Witness ==
    /\ obj[1].ActualLock = CallerLock
    /\ obj[1].ServiceRoutine = "OtherRoutine"
    /\ ~obj[1].Connected
    /\ obj[1].Flink # NoObject
    /\ \E x \in Objs \ {1} : obj[x].Connected

(***************************************************************************)
(* C22.  The inspector agrees with the binder: right after                 *)
(* KiConnectVectorAndInterruptObject of an object with NoConnect,          *)
(* NormalConnect or ChainConnect, on the processor of the caller,          *)
(* KiGetVectorInfo of the object's vector reports that classification,     *)
(* and the object as the occupant unless the classification is NoConnect,  *)
(* for vectors of the IDT and of the flat table alike.  (KiGetVectorInfo   *)
(* writes nothing but its result.)  Violated for a flat-table vector: the  *)
(* occupant computed at lines 620-625 is not the object.                   *)
(***************************************************************************)
C22_InspectorAgreesWithBinder ==
    \A o \in Objs : \A p \in Procs :
       \A Type \in {NoConnect, NormalConnect, ChainConnect} :
          LET m == KiConnectVectorAndInterruptObject(Machine, p, o, Type)
              info == KiGetVectorInfo(m.obj, m.idt, p, obj[o].Vector)
          IN  /\ info.Type = Type
              /\ Type # NoConnect => info.Interrupt = o

\* The last n calls of the walk were one pass over the whole chain, ending
\* with its last member, and none of them reported the request handled.
QuietFullPass(w, order) ==
    LET n == Len(order)
        k == Len(w.calls)
    IN  /\ n > 0
        /\ k >= n
        /\ \A i \in 1..n : /\ w.calls[k - n + i] = order[i]
                           /\ ~w.reports[k - n + i]

(***************************************************************************)
(* C23.  A chained walk ends once a full pass over the chain has been made *)
(* in which no service routine reported the request handled: no further    *)
(* routine is called after such a pass.  Violated for a chain of           *)
(* edge-triggered objects: Handled keeps the report of an earlier pass     *)
(* (lines 805, 852), so the test of line 948 sends the walk round again.   *)
(***************************************************************************)
C23_WalkEndsAfterQuietPass ==
    (walk.stage = "chained" /\ QuietFullPass(walk, WalkOrder)) => walk.pc = "done"

(***************************************************************************)
(* C24.  In a chained walk every service routine is called at the          *)
(* synchronize level of its object, and after each member the processor    *)
(* is back at the level at which the walk was entered, whatever the        *)
(* request levels the members of the chain were initialized with.          *)
(* Violated for a chain whose members have different request levels: the   *)
(* tests of lines 831 and 913 compare the member's own request level, not  *)
(* the level of the processor, and line 914 lowers to the member's         *)
(* request level.                                                          *)
(***************************************************************************)
C24_RoutinesRunAtSynchronizeLevel ==
    walk.stage = "chained" =>
        /\ \A i \in 1..Len(walk.calls) :
              walk.levels[i] = obj[walk.calls[i]].SynchronizeIrql
        /\ walk.Irql = walk.EntryIrql

\* The frames whose elapsed time has been adjusted.
Adjusted(f) == f.pc \in {"load", "store"}

(***************************************************************************)
(* C25.  The adjusted elapsed time of a service routine is the cycles the  *)
(* routine itself ran, the cycles of the dispatch routines that            *)
(* interrupted it excluded; the subtraction of the time spent in them      *)
(* does not wrap below zero; and when no dispatch routine is in progress   *)
(* Prcb->IsrTime is the sum of the cycles of all service routines run.     *)
(* Violated when a dispatch routine is interrupted between its reading of  *)
(* Prcb->IsrTime and its reading of the cycle counter (lines 837-838,      *)
(* 985-986), or between the two readings after the call (lines 868-876,    *)
(* 1017-1025), or inside the update of Prcb->IsrTime (lines 905, 1053).    *)
(***************************************************************************)
C25_ElapsedTimeExcludesNested ==
    /\ \A i \in 1..Len(prcb.frames) :
          Adjusted(prcb.frames[i]) =>
              /\ ~Greater64(prcb.frames[i].TimeHigher, prcb.frames[i].raw)
              /\ prcb.frames[i].ElapsedTime = prcb.frames[i].cost
    /\ prcb.frames = <<>> => prcb.IsrTime = prcb.Tsc

\* The connected objects of slot s.
ConnectedOn(s) == {o \in Objs : obj[o].Connected /\ SlotOf(o) = s}

(***************************************************************************)
(* C26.  Whenever no call holds the dispatcher lock, the classification    *)
(* KiGetVectorInfo gives of every vector matches the number of objects     *)
(* connected to it: NoConnect for none, NormalConnect for one,             *)
(* ChainConnect for two or more, never UnknownConnect; and the objects of  *)
(* a vector with two or more are all shareable and of one mode.  Violated  *)
(* by a flat-table vector with an object connected to it, which            *)
(* KiGetVectorInfo classifies UnknownConnect.                              *)
(***************************************************************************)
C26_ClassificationMatchesCount ==
    lock = NoThread =>
        \A s \in Slots :
           LET n == Cardinality(ConnectedOn(s))
               Type == TypeOf(obj, idt, s)
           IN  /\ Type = NoConnect <=> n = 0
               /\ Type = NormalConnect <=> n = 1
               /\ Type = ChainConnect <=> n >= 2
               /\ Type # UnknownConnect
               /\ n >= 2 => \A a, b \in ConnectedOn(s) :
                               /\ obj[a].ShareVector
                               /\ obj[a].Mode = obj[b].Mode

\* No call on object o is in progress and o is not connected: o was never
\* connected, or the last call on it that returned was a KeDisconnectInterrupt
\* or a KeConnectInterrupt that returned FALSE.
Released(o) ==
    /\ ~obj[o].Connected
    /\ \A t \in Threads : thr[t].o = o => thr[t].pc = "return"

\* A dispatch routine calls the service routine of its current object.
ServiceRoutineCall == ChainedDispatchStep \/ InterruptDispatchStep

(***************************************************************************)
(* C27.  With interrupts dispatched between any two writes of              *)
(* KeConnectInterrupt and KeDisconnectInterrupt, every service routine a   *)
(* dispatch routine calls is that of an object which is at that moment     *)
(* installed in the vector or linked in the chain of the installed         *)
(* object, and never that of an object which is not connected and has no   *)
(* call in progress on it; so the routine of an object is not called       *)
(* after KeDisconnectInterrupt returned TRUE for it, until a               *)
(* KeConnectInterrupt of it succeeds.                                      *)
(***************************************************************************)
C27_OnlyLinkedObjectsInvoked ==
    [][ServiceRoutineCall =>
          /\ walk.Interrupt \in Members(WalkOrder)
          /\ ~Released(walk.Interrupt)]_vars

\* A chained walk has run in the middle of a KeDisconnectInterrupt whose
\* writes are not all done, on the vector of the object being disconnected,
\* which is still linked in the chain.
C27_Witness ==
    /\ walk.pc = "done"
    /\ walk.stage = "chained"
    /\ \E t \in Threads : /\ thr[t].pc = "writes"
                          /\ thr[t].op = "Disconnect"
                          /\ thr[t].todo # <<>>
                          /\ thr[t].affinity = walk.p
                          /\ SlotOf(thr[t].o) = <<walk.p, walk.v>>
                          /\ thr[t].o \in Members(WalkOrder)

=============================================================================
